---------------------------- MODULE Spec2Model ----------------------------
(***************************************************************************)
(* A model of the release computation engine of                            *)
(* aws-go-multi-module-repository-tools: the gomod module tree, the file   *)
(* filter, the release calculation, the dependency propagation, the next   *)
(* version calculation and the release manifest.                           *)
(*                                                                         *)
(* Strings are TLA+ strings; paths are compared and cut byte-wise, as the  *)
(* Go code does, so a path such as "ab" is not the same thing as "a/b".    *)
(***************************************************************************)
EXTENDS Integers, Sequences, FiniteSets, TLC

VARIABLES
    tree,       \* gomod.ModuleTree: [options |-> [RootPath], subModules |-> <<node ids>>]
    modules,    \* map[string]*release.Module: module path -> its release state
    env,        \* the collaborators of a calculation: tags, git, files, configuration
    nodes,      \* the heap of *ModuleTreeNode: node id -> [absPath, relPath, subModules, attributes]
    ret,        \* what the last call returned
    pc          \* the position of the calling program

vars == <<tree, nodes, modules, env, ret, pc>>

(***************************************************************************)
(* Bounds of the model.                                                    *)
(***************************************************************************)
MaxNodes == 5

MaxFiles == 2

(***************************************************************************)
(* Go strings.                                                             *)
(***************************************************************************)
\* The bytes the model uses, in ascending byte order.
Alphabet == "+-./0123456789_abcdefghijklmnopqrstuvwxyz"

Char(s, i) == SubSeq(s, i, i)

Ord(c) == CHOOSE i \in 1..Len(Alphabet) : Char(Alphabet, i) = c

MinOf(S) == CHOOSE x \in S : \A y \in S : x <= y

MaxOf(S) == CHOOSE x \in S : \A y \in S : y <= x

\* a < b on Go strings: byte-wise lexicographic order.
StrLess(a, b) ==
    LET n == IF Len(a) < Len(b) THEN Len(a) ELSE Len(b)
        diff == {i \in 1..n : Char(a, i) # Char(b, i)}
    IN  IF diff = {} THEN Len(a) < Len(b)
        ELSE Ord(Char(a, MinOf(diff))) < Ord(Char(b, MinOf(diff)))

HasPrefix(s, prefix) ==
    Len(prefix) <= Len(s) /\ SubSeq(s, 1, Len(prefix)) = prefix

HasSuffix(s, suffix) ==
    Len(suffix) <= Len(s) /\ SubSeq(s, Len(s) - Len(suffix) + 1, Len(s)) = suffix

TrimPrefix(s, prefix) ==
    IF HasPrefix(s, prefix) THEN SubSeq(s, Len(prefix) + 1, Len(s)) ELSE s

\* strings.LastIndex(s, c) for a one byte c, 1-based; 0 when c is not in s.
LastIndex(s, c) ==
    LET at == {i \in 1..Len(s) : Char(s, i) = c}
    IN  IF at = {} THEN 0 ELSE MaxOf(at)

\* strings.Index(s, c) for a one byte c, 1-based; 0 when c is not in s.
IndexOf(s, c) ==
    LET at == {i \in 1..Len(s) : Char(s, i) = c}
    IN  IF at = {} THEN 0 ELSE MinOf(at)

\* sort.Strings
SortStrings(list) == SortSeq(list, StrLess)

SeqToSet(s) == {s[i] : i \in 1..Len(s)}


(***************************************************************************)
(* path/filepath, as the tree and the filter use it (Unix separators).     *)
(***************************************************************************)
RECURSIVE SplitSlash(_)
\* strings.Split(s, "/")
SplitSlash(s) ==
    LET i == IndexOf(s, "/")
    IN  IF i = 0 THEN <<s>>
        ELSE <<SubSeq(s, 1, i - 1)>> \o SplitSlash(SubSeq(s, i + 1, Len(s)))

RECURSIVE JoinSlash(_)
\* strings.Join(elems, "/")
JoinSlash(elems) ==
    IF elems = <<>> THEN ""
    ELSE IF Len(elems) = 1 THEN elems[1]
    ELSE elems[1] \o "/" \o JoinSlash(Tail(elems))

IsRooted(path) == HasPrefix(path, "/")

RECURSIVE CleanElems(_, _, _)
\* The loop of filepath.Clean over the elements of the path: "" and "." are
\* dropped, ".." removes the element before it (at the root it is dropped,
\* at the start of a relative path it is kept).
CleanElems(elems, out, rooted) ==
    IF elems = <<>> THEN out
    ELSE LET e == Head(elems)
             rest == Tail(elems)
         IN  IF e = "" \/ e = "." THEN CleanElems(rest, out, rooted)
             ELSE IF e = ".."
                  THEN IF out # <<>> /\ out[Len(out)] # ".."
                       THEN CleanElems(rest, SubSeq(out, 1, Len(out) - 1), rooted)
                       ELSE IF rooted THEN CleanElems(rest, out, rooted)
                       ELSE CleanElems(rest, Append(out, e), rooted)
             ELSE CleanElems(rest, Append(out, e), rooted)

\* filepath.Clean
Clean(path) ==
    IF path = "" THEN "."
    ELSE LET rooted == IsRooted(path)
             out == JoinSlash(CleanElems(SplitSlash(path), <<>>, rooted))
         IN  IF rooted THEN "/" \o out
             ELSE IF out = "" THEN "." ELSE out

\* filepath.Join(a, b): the non-empty elements joined by "/" and cleaned;
\* the empty string when every element is empty.
Join(a, b) ==
    IF a = "" /\ b = "" THEN ""
    ELSE IF a = "" THEN Clean(b)
    ELSE IF b = "" THEN Clean(a)
    ELSE Clean(a \o "/" \o b)

\* filepath.Split: the directory (with its trailing slash) and the file name.
SplitDir(path) == SubSeq(path, 1, LastIndex(path, "/"))

SplitFile(path) == SubSeq(path, LastIndex(path, "/") + 1, Len(path))

\* The elements of a cleaned path, without the root.
PathElems(cleaned) ==
    LET p == TrimPrefix(cleaned, "/")
    IN  IF p = "" \/ p = "." THEN <<>> ELSE SplitSlash(p)

\* The number of leading elements two paths share.
CommonElems(b, t) ==
    LET n == IF Len(b) < Len(t) THEN Len(b) ELSE Len(t)
        diff == {i \in 1..n : b[i] # t[i]}
    IN  IF diff = {} THEN n ELSE MinOf(diff) - 1

\* filepath.Rel(basepath, targpath): [ok, path]. An error only when one path
\* is rooted and the other is not, or when the base has a ".." the target
\* does not share; a target outside of the base is reached through "..".
Rel(basepath, targpath) ==
    LET base == Clean(basepath)
        targ == Clean(targpath)
        b == PathElems(base)
        t == PathElems(targ)
        k == CommonElems(b, t)
        ups == [i \in 1..(Len(b) - k) |-> ".."]
    IN  IF targ = base THEN [ok |-> TRUE, path |-> "."]
        ELSE IF IsRooted(base) # IsRooted(targ) THEN [ok |-> FALSE, path |-> ""]
        ELSE IF k < Len(b) /\ b[k + 1] = ".." THEN [ok |-> FALSE, path |-> ""]
        ELSE [ok |-> TRUE, path |-> JoinSlash(ups \o SubSeq(t, k + 1, Len(t)))]


(***************************************************************************)
(* gomod.ModuleTree and gomod.ModuleTreeNode.  A node is its index in      *)
(* nodes; NilNode is the nil pointer.                                      *)
(***************************************************************************)
NilNode == 0

\* ModuleTreeNode.Path
Path(n) == nodes[n].relPath

\* ModuleTreeNode.AbsPath
AbsPath(n) == nodes[n].absPath

\* ModuleTreeNode.HasAttribute
HasAttribute(n, attribute) ==
    \E i \in 1..Len(nodes[n].attributes) : nodes[n].attributes[i] = attribute

\* AncestorOf on the bare string prefix, without the directory boundary.
AncestorOfByPrefix(node, path) ==
    IF node.relPath = "." \/ node.relPath = path THEN TRUE
    ELSE HasPrefix(path, node.relPath)

\* ModuleTreeNode.AncestorOf, of the node record (a node not yet in the tree
\* asks it too).
AncestorOf(node, path) ==
    IF node.relPath = "." \/ node.relPath = path THEN TRUE
    ELSE HasPrefix(path, node.relPath \o "/")

RECURSIVE searchFrom(_, _, _)
\* The loop of searchModuleTreeNodes: the first node of the layer that is an
\* ancestor of the path becomes the parent, and the search goes on among its
\* sub modules.
searchFrom(path, layer, parent) ==
    LET hits == {i \in 1..Len(layer) : AncestorOf(nodes[layer[i]], path)}
    IN  IF hits = {} THEN parent
        ELSE LET m == layer[MinOf(hits)]
             IN  searchFrom(path, nodes[m].subModules, m)

searchModuleTreeNodes(path, layer) == searchFrom(path, layer, NilNode)

\* ModuleTree.Search
TreeSearch(path) == searchModuleTreeNodes(path, tree.subModules)

\* Get over the top layer of the tree only.
TreeGetTopLayer(path) ==
    LET found == {i \in 1..Len(tree.subModules) : Path(tree.subModules[i]) = path}
    IN  IF found = {} THEN NilNode ELSE tree.subModules[MinOf(found)]

\* ModuleTree.Get
TreeGet(path) ==
    LET node == searchModuleTreeNodes(path, tree.subModules)
    IN  IF node # NilNode /\ Path(node) = path THEN node ELSE NilNode

\* ModuleTreeNode.Search
NodeSearch(n, path) == searchModuleTreeNodes(path, nodes[n].subModules)

\* ModuleTreeNode.Get
NodeGet(n, path) ==
    IF Path(n) = path THEN n
    ELSE LET node == searchModuleTreeNodes(path, nodes[n].subModules)
         IN  IF node # NilNode /\ Path(node) = path THEN node ELSE NilNode

\* ParentOf without the search among the sub modules.
ParentOfAnyDepth(n, path) == AncestorOf(nodes[n], path)

\* ModuleTreeNode.ParentOf
ParentOf(n, path) ==
    IF ~AncestorOf(nodes[n], path) THEN FALSE
    ELSE NodeSearch(n, path) = NilNode

\* No sort at all.
SortNodesNot(list, heap) == list

\* sort.Sort(sortableModuleTreeNodes(list)), the nodes taken from heap.
SortNodes(list, heap) ==
    SortSeq(list, LAMBDA x, y : StrLess(heap[x].relPath, heap[y].relPath))

\* The sub modules of a layer: the tree's for NilNode, else the node's.
Layer(parent) ==
    IF parent = NilNode THEN tree.subModules ELSE nodes[parent].subModules

RECURSIVE insertLayer(_, _)
\* The walk of Insert: down into the first node of the layer that is an
\* ancestor of the new path, until no node of the layer is.
insertLayer(parent, moduleRelPath) ==
    LET layer == Layer(parent)
        hits == {i \in 1..Len(layer) : AncestorOf(nodes[layer[i]], moduleRelPath)}
    IN  IF hits = {} THEN parent
        ELSE insertLayer(layer[MinOf(hits)], moduleRelPath)

RECURSIVE reparentedSkipping(_, _)
\* The scan of Insert without its i--: the node after a removed one is not
\* looked at.
reparentedSkipping(newNode, layer) ==
    IF layer = <<>> THEN <<>>
    ELSE IF AncestorOf(newNode, Path(Head(layer)))
         THEN <<Head(layer)>> \o reparentedSkipping(newNode, SubSeq(layer, 3, Len(layer)))
         ELSE reparentedSkipping(newNode, Tail(layer))

\* The scan of Insert over the layer it inserts into: the nodes the new node
\* is an ancestor of are cut from the layer and become its sub modules.
reparented(newNode, layer) ==
    SelectSeq(layer, LAMBDA m : AncestorOf(newNode, Path(m)))

\* ModuleTree.Insert, after the path relative to the root is known.
insertRelative(modulePath, attributes, rel) ==
    IF ~rel.ok
    THEN /\ ret' = [node |-> NilNode, err |-> "not nested"]
         /\ UNCHANGED <<tree, nodes>>
    ELSE IF TreeGet(rel.path) # NilNode
    THEN /\ ret' = [node |-> NilNode, err |-> "already exists"]
         /\ UNCHANGED <<tree, nodes>>
    ELSE LET parent == insertLayer(NilNode, rel.path)
             layer == Layer(parent)
             new == Len(nodes) + 1
             newNode == [absPath |-> modulePath, relPath |-> rel.path,
                         subModules |-> <<>>, attributes |-> attributes]
             moved == reparented(newNode, layer)
             kept == SelectSeq(layer, LAMBDA m : m \notin SeqToSet(moved))
             heap == Append(nodes, newNode)
             heap2 == [heap EXCEPT ![new].subModules = SortNodes(moved, heap)]
             layer2 == SortNodes(Append(kept, new), heap2)
         IN  /\ Len(nodes) < MaxNodes
             /\ nodes' = IF parent = NilNode THEN heap2
                         ELSE [heap2 EXCEPT ![parent].subModules = layer2]
             /\ tree' = IF parent = NilNode
                        THEN [tree EXCEPT !.subModules = layer2]
                        ELSE tree
             /\ ret' = [node |-> new, err |-> ""]

\* ModuleTree.Insert
Insert(modulePath, attributes) ==
    insertRelative(modulePath, attributes,
                   IF tree.options.RootPath # ""
                   THEN Rel(tree.options.RootPath, modulePath)
                   ELSE [ok |-> TRUE, path |-> modulePath])

\* ModuleTree.InsertRel
InsertRel(relModulePath, attributes) ==
    Insert(Join(tree.options.RootPath, relModulePath), attributes)

RECURSIVE listNodes(_)
\* The nodes a fresh iterator over the layer yields, in its order: each node
\* of the layer is followed by the nodes of its sub modules (the stack of
\* ModuleTreeIterator, popped until it is empty).
listNodes(layer) ==
    IF layer = <<>> THEN <<>>
    ELSE <<Head(layer)>> \o listNodes(nodes[Head(layer)].subModules)
                         \o listNodes(Tail(layer))

\* ModuleTree.List
TreeList == listNodes(tree.subModules)

\* ModuleTreeNode.List
NodeList(n) == listNodes(nodes[n].subModules)

(***************************************************************************)
(* The module tree under any sequence of Insert and InsertRel calls.       *)
(***************************************************************************)
\* The paths a caller inserts.
ModulePaths == {".", "a", "a/b", "a/f/g", "ab", "c", "e/f/g"}

\* The root directories a tree is made with ("" is no root).
RootPaths == {"", "/r"}

NewModuleTree(rootPath) ==
    [options |-> [RootPath |-> rootPath], subModules |-> <<>>]

InitTree ==
    /\ tree \in {NewModuleTree(r) : r \in RootPaths}
    /\ nodes = <<>>
    /\ modules = <<>>
    /\ env = <<>>
    /\ ret = [node |-> NilNode, err |-> ""]
    /\ pc = "tree"

CallInsert ==
    /\ \E p \in ModulePaths : Insert(p, <<>>)
    /\ UNCHANGED <<pc, modules, env>>

CallInsertRel ==
    /\ \E p \in ModulePaths : InsertRel(p, <<>>)
    /\ UNCHANGED <<pc, modules, env>>

\* The absolute paths a caller inserts into a tree with a root: a directory
\* below the root and one beside it.
AbsolutePaths(rootPath) ==
    IF rootPath = "" THEN {} ELSE {Join(rootPath, "a"), Join(rootPath, "../x")}

CallInsertAbsolute ==
    /\ \E p \in AbsolutePaths(tree.options.RootPath) : Insert(p, <<>>)
    /\ UNCHANGED <<pc, modules, env>>

NextTree == CallInsert \/ CallInsertRel \/ CallInsertAbsolute

SpecTree == InitTree /\ [][NextTree]_vars


(***************************************************************************)
(* gomod.FilterModuleFiles and gomod.IsModuleChanged.                      *)
(***************************************************************************)
\* IsGoSource for any name with the suffix, hidden files too.
IsGoSourceAnyName(name) == HasSuffix(name, ".go")

\* gomod.IsGoSource
IsGoSource(name) == ~HasPrefix(name, ".") /\ HasSuffix(name, ".go")

\* gomod.IsGoMod
IsGoMod(name) == name = "go.mod"

RECURSIVE filterLoop(_, _, _)
\* The first loop of FilterModuleFiles: dirCache maps a directory to
\* [filepaths, relevant]; ParentOf is asked once for each directory.
filterLoop(module, files, dirCache) ==
    IF files = <<>> THEN dirCache
    ELSE LET filepathName == Head(files)
             dir == Clean(SplitDir(filepathName))
             fileName == SplitFile(filepathName)
         IN  IF ~(IsGoSource(fileName) \/ IsGoMod(fileName))
             THEN filterLoop(module, Tail(files), dirCache)
             ELSE IF dir \in DOMAIN dirCache
             THEN IF ~dirCache[dir].relevant
                  THEN filterLoop(module, Tail(files), dirCache)
                  ELSE filterLoop(module, Tail(files),
                           [dirCache EXCEPT ![dir].filepaths = Append(@, filepathName)])
             ELSE IF ~ParentOf(module, dir)
             THEN filterLoop(module, Tail(files),
                      (dir :> [filepaths |-> <<>>, relevant |-> FALSE]) @@ dirCache)
             ELSE filterLoop(module, Tail(files),
                      (dir :> [filepaths |-> <<filepathName>>, relevant |-> TRUE]) @@ dirCache)

RECURSIVE relevantFilesOf(_, _)
\* The second loop of FilterModuleFiles, over the directories in some order
\* (the order of a Go map; the result is sorted afterwards).
relevantFilesOf(dirCache, dirs) ==
    IF dirs = {} THEN <<>>
    ELSE LET dir == CHOOSE d \in dirs : TRUE
         IN  (IF dirCache[dir].relevant THEN dirCache[dir].filepaths ELSE <<>>)
                 \o relevantFilesOf(dirCache, dirs \ {dir})

\* gomod.FilterModuleFiles (its error is always nil)
FilterModuleFiles(module, files) ==
    LET dirCache == filterLoop(module, files, <<>>)
    IN  SortStrings(relevantFilesOf(dirCache, DOMAIN dirCache))

\* gomod.IsModuleChanged
IsModuleChanged(module, changes) == Len(FilterModuleFiles(module, changes)) # 0

(***************************************************************************)
(* FilterModuleFiles and IsModuleChanged called on the nodes of a tree     *)
(* built by Insert.                                                        *)
(***************************************************************************)
\* The modules of the filter's tests.
FilterModulePaths == {".", "sub1", "foobar", "foobar/sub1"}

\* The changed files handed to the filter.
ChangedFiles ==
    {"foo.go", "sub1/baz.go", "foobarbaz/baz.go", "foobar/sub1/sub1.go",
     "foobar/go.mod", ".x.go", "foo.java"}

\* The changes of the filter's test of the repository root.
RootChanges == <<"sub3/foo.go", "sub2/bar.go", "sub1/baz.go", "foo.go">>

RECURSIVE SeqsUpTo(_, _)
\* The sequences over S of length at most n.
SeqsUpTo(S, n) ==
    IF n = 0 THEN {<<>>}
    ELSE LET shorter == SeqsUpTo(S, n - 1)
         IN  shorter \cup {Append(q, x) : q \in shorter, x \in S}

FileLists == SeqsUpTo(ChangedFiles, MaxFiles) \cup {RootChanges}

InitFilter ==
    /\ tree = NewModuleTree("")
    /\ nodes = <<>>
    /\ modules = <<>>
    /\ env = <<>>
    /\ ret = [node |-> NilNode, err |-> ""]
    /\ pc = "build"

\* "foobar" is inserted as a module or as the tombstone of one.
FilterInsert ==
    /\ pc = "build"
    /\ \E p \in FilterModulePaths :
           \E attributes \in {<<>>} \cup {<<"tombstone">> : q \in {p} \cap {"foobar"}} :
               Insert(p, attributes)
    /\ UNCHANGED <<pc, modules, env>>

CallFilterModuleFiles ==
    /\ pc = "build"
    /\ \E module \in 1..Len(nodes) : \E files \in FileLists :
          ret' = [module |-> module, files |-> files,
                  filtered |-> FilterModuleFiles(module, files),
                  changed |-> IsModuleChanged(module, files)]
    /\ pc' = "filtered"
    /\ UNCHANGED <<tree, nodes, modules, env>>

NextFilter == FilterInsert \/ CallFilterModuleFiles

SpecFilter == InitFilter /\ [][NextFilter]_vars

(***************************************************************************)
(* gomod.ModuleTreeIterator over a tree built by Insert.  The iterators    *)
(* of the caller are in env, in the order they were made; an iterator is   *)
(* its stack, with the layer or node it was made over (NilNode: the tree), *)
(* the nodes it has returned and the number of calls of Next.              *)
(***************************************************************************)
MaxIterators == 2

\* moduleTreeNodeStack.PushReverse with the nodes pushed first to last.
PushInOrder(stack, list) == stack \o list

\* moduleTreeNodeStack.PushReverse: the top of the stack is its last element.
PushReverse(stack, list) ==
    stack \o [i \in 1..Len(list) |-> list[Len(list) + 1 - i]]

\* ModuleTree.Iterator and ModuleTreeNode.Iterator
CallIterator ==
    /\ pc \in {"build", "iterate"}
    /\ pc' = "iterate"
    /\ Len(env) < MaxIterators
    /\ \E over \in {NilNode} \cup (1..Len(nodes)) :
           env' = Append(env, [over |-> over,
                               stack |-> PushReverse(<<>>, Layer(over)),
                               yielded |-> <<>>,
                               calls |-> 0])
    /\ UNCHANGED <<tree, nodes, modules, ret>>

\* ModuleTreeIterator.Next, called at most once more than there are nodes.
CallNext ==
    /\ pc = "iterate"
    /\ \E i \in 1..Len(env) :
           LET it == env[i]
               next == it.stack[Len(it.stack)]
           IN  /\ it.calls <= Len(nodes)
               /\ IF it.stack = <<>>
                  THEN /\ ret' = [node |-> NilNode, err |-> ""]
                       /\ env' = [env EXCEPT ![i].calls = @ + 1]
                  ELSE /\ ret' = [node |-> next, err |-> ""]
                       /\ env' = [env EXCEPT ![i] =
                              [over |-> it.over,
                               stack |-> PushReverse(SubSeq(it.stack, 1, Len(it.stack) - 1),
                                                     nodes[next].subModules),
                               yielded |-> Append(it.yielded, next),
                               calls |-> it.calls + 1]]
    /\ UNCHANGED <<tree, nodes, modules, pc>>

NextIter == FilterInsert \/ CallIterator \/ CallNext

SpecIter == InitFilter /\ [][NextIter]_vars

(***************************************************************************)
(* strconv, internal/semver, module.SplitPathVersion and                   *)
(* changelog.GetVersionIncrement, as the version calculation uses them.    *)
(***************************************************************************)
IsDigit(c) == Ord(c) >= Ord("0") /\ Ord(c) <= Ord("9")

\* [0-9A-Za-z-]
IsIdentChar(c) == IsDigit(c) \/ c = "-" \/ (Ord(c) >= Ord("a") /\ Ord(c) <= Ord("z"))

AllDigits(s) == \A i \in 1..Len(s) : IsDigit(Char(s, i))

\* A Go int has 64 bits, more than an integer of the model checker holds:
\* the value of an int is [neg, mag], mag its magnitude in decimal digits
\* without leading zeros.
MaxInt == "9223372036854775807"

RECURSIVE StripZeros(_)
\* The digits without their leading zeros, one digit at least.
StripZeros(digits) ==
    IF Len(digits) > 1 /\ Char(digits, 1) = "0"
    THEN StripZeros(SubSeq(digits, 2, Len(digits)))
    ELSE digits

\* The order of two magnitudes.
MagLess(a, b) == Len(a) < Len(b) \/ (Len(a) = Len(b) /\ StrLess(a, b))

RECURSIVE Succ(_)
\* The magnitude plus one.
Succ(mag) ==
    IF mag = "" THEN "1"
    ELSE IF Char(mag, Len(mag)) = "9" THEN Succ(SubSeq(mag, 1, Len(mag) - 1)) \o "0"
    ELSE SubSeq(mag, 1, Len(mag) - 1)
             \o Char("123456789", Ord(Char(mag, Len(mag))) - Ord("0") + 1)

RECURSIVE Pred(_)
\* The magnitude minus one, of a magnitude that is not zero.
Pred(mag) ==
    IF Char(mag, Len(mag)) = "0"
    THEN StripZeros(Pred(SubSeq(mag, 1, Len(mag) - 1)) \o "9")
    ELSE StripZeros(SubSeq(mag, 1, Len(mag) - 1)
                        \o Char("012345678", Ord(Char(mag, Len(mag))) - Ord("0")))

\* strconv.Atoi: [ok, n]; an optional sign and at least one digit, and a
\* value an int holds.
Atoi(s) ==
    LET signed == s # "" /\ Char(s, 1) \in {"+", "-"}
        digits == IF signed THEN SubSeq(s, 2, Len(s)) ELSE s
        neg == signed /\ Char(s, 1) = "-"
    IN  IF digits = "" \/ ~AllDigits(digits)
        THEN [ok |-> FALSE, n |-> [neg |-> FALSE, mag |-> "0"]]
        ELSE IF MagLess(IF neg THEN Succ(MaxInt) ELSE MaxInt, StripZeros(digits))
        THEN [ok |-> FALSE, n |-> [neg |-> neg, mag |-> IF neg THEN Succ(MaxInt) ELSE MaxInt]]
        ELSE [ok |-> TRUE,
              n |-> [neg |-> neg /\ StripZeros(digits) # "0", mag |-> StripZeros(digits)]]

\* i + 1 of an int i: the sum wraps around at the largest int.
PlusOne(i) ==
    IF ~i.neg
    THEN IF i.mag = MaxInt THEN [neg |-> TRUE, mag |-> Succ(MaxInt)]
         ELSE [neg |-> FALSE, mag |-> Succ(i.mag)]
    ELSE [neg |-> i.mag # "1", mag |-> Pred(i.mag)]

\* strconv.Itoa
Itoa(n) == IF n.neg THEN "-" \o n.mag ELSE n.mag

\* The length of the run of digits s starts with.
LeadingDigits(s) ==
    LET stops == {i \in 1..Len(s) : ~IsDigit(Char(s, i))}
    IN  IF stops = {} THEN Len(s) ELSE MinOf(stops) - 1

\* semver's parseInt: [ok, t, rest]; no leading zero.
parseInt(v) ==
    LET n == LeadingDigits(v)
    IN  IF n = 0 \/ (Char(v, 1) = "0" /\ n > 1)
        THEN [ok |-> FALSE, t |-> "", rest |-> ""]
        ELSE [ok |-> TRUE, t |-> SubSeq(v, 1, n), rest |-> SubSeq(v, n + 1, Len(v))]

\* semver's isBadNum: a number with a leading zero.
isBadNum(v) == AllDigits(v) /\ Len(v) > 1 /\ Char(v, 1) = "0"

\* Dot separated identifiers of [0-9A-Za-z-], none empty; when numeric is
\* set, none a number with a leading zero.
ValidIdentifiers(s, numeric) ==
    /\ \A i \in 1..Len(s) : IsIdentChar(Char(s, i)) \/ Char(s, i) = "."
    /\ LET dots == {0, Len(s) + 1} \cup {i \in 1..Len(s) : Char(s, i) = "."}
       IN  \A i \in dots : i <= Len(s) =>
               LET next == MinOf({j \in dots : j > i})
                   ident == SubSeq(s, i + 1, next - 1)
               IN  ident # "" /\ (numeric => ~isBadNum(ident))

\* semver's parsePrerelease: [ok, t, rest]; t keeps its "-".
parsePrerelease(v) ==
    LET plus == IndexOf(v, "+")
        end == IF plus = 0 THEN Len(v) ELSE plus - 1
    IN  IF v = "" \/ Char(v, 1) # "-" \/ ~ValidIdentifiers(SubSeq(v, 2, end), TRUE)
        THEN [ok |-> FALSE, t |-> "", rest |-> ""]
        ELSE [ok |-> TRUE, t |-> SubSeq(v, 1, end), rest |-> SubSeq(v, end + 1, Len(v))]

\* semver's parseBuild: [ok, t, rest]; t keeps its "+".
parseBuild(v) ==
    IF v = "" \/ Char(v, 1) # "+" \/ ~ValidIdentifiers(SubSeq(v, 2, Len(v)), FALSE)
    THEN [ok |-> FALSE, t |-> "", rest |-> ""]
    ELSE [ok |-> TRUE, t |-> v, rest |-> ""]

NotParsed ==
    [ok |-> FALSE, Major |-> "", Minor |-> "", Patch |-> "", Short |-> "",
     Prerelease |-> "", Build |-> ""]

\* The end of semver.Parse, after the patch number: the pre-release and the
\* build, and nothing after them.
parseTail(major, minor, patch, v) ==
    LET pre == IF v # "" /\ Char(v, 1) = "-" THEN parsePrerelease(v)
               ELSE [ok |-> TRUE, t |-> "", rest |-> v]
        build == IF pre.ok /\ pre.rest # "" /\ Char(pre.rest, 1) = "+"
                 THEN parseBuild(pre.rest)
                 ELSE [ok |-> TRUE, t |-> "", rest |-> pre.rest]
    IN  IF ~pre.ok \/ ~build.ok \/ build.rest # "" THEN NotParsed
        ELSE [ok |-> TRUE, Major |-> major, Minor |-> minor, Patch |-> patch,
              Short |-> "", Prerelease |-> pre.t, Build |-> build.t]

\* semver.Parse: vMAJOR[.MINOR[.PATCH[-PRERELEASE][+BUILD]]]
SemverParse(v) ==
    IF v = "" \/ Char(v, 1) # "v" THEN NotParsed
    ELSE LET major == parseInt(SubSeq(v, 2, Len(v)))
         IN  IF ~major.ok THEN NotParsed
             ELSE IF major.rest = ""
             THEN [NotParsed EXCEPT !.ok = TRUE, !.Major = major.t, !.Minor = "0",
                                    !.Patch = "0", !.Short = ".0.0"]
             ELSE IF Char(major.rest, 1) # "." THEN NotParsed
             ELSE LET minor == parseInt(SubSeq(major.rest, 2, Len(major.rest)))
                  IN  IF ~minor.ok THEN NotParsed
                      ELSE IF minor.rest = ""
                      THEN [NotParsed EXCEPT !.ok = TRUE, !.Major = major.t,
                                             !.Minor = minor.t, !.Patch = "0",
                                             !.Short = ".0"]
                      ELSE IF Char(minor.rest, 1) # "." THEN NotParsed
                      ELSE LET patch == parseInt(SubSeq(minor.rest, 2, Len(minor.rest)))
                           IN  IF ~patch.ok THEN NotParsed
                               ELSE parseTail(major.t, minor.t, patch.t, patch.rest)

\* semver.Canonical: without the build, the short forms filled in; "" for a
\* string that is no version.
SemverCanonical(v) ==
    LET p == SemverParse(v)
    IN  IF ~p.ok THEN ""
        ELSE IF p.Build # "" THEN SubSeq(v, 1, Len(v) - Len(p.Build))
        ELSE IF p.Short # "" THEN v \o p.Short
        ELSE v

\* semver.Parsed.String
ParsedString(p) ==
    "v" \o p.Major \o "." \o p.Minor \o "." \o p.Patch \o p.Prerelease \o p.Build

\* semver's compareInt, of two numbers without leading zeros: -1, 0 or 1.
compareInt(x, y) ==
    IF x = y THEN 0
    ELSE IF Len(x) < Len(y) THEN -1
    ELSE IF Len(x) > Len(y) THEN 1
    ELSE IF StrLess(x, y) THEN -1 ELSE 1

\* semver's nextIdent: the length of the identifier x starts with.
nextIdentLen(x) ==
    LET i == IndexOf(x, ".") IN IF i = 0 THEN Len(x) ELSE i - 1

RECURSIVE comparePrereleaseLoop(_, _)
\* The loop of semver's comparePrerelease, identifier by identifier.
comparePrereleaseLoop(x, y) ==
    IF x = "" \/ y = ""
    THEN IF x = "" /\ y = "" THEN 0 ELSE IF x = "" THEN -1 ELSE 1
    ELSE LET x1 == SubSeq(x, 2, Len(x))
             y1 == SubSeq(y, 2, Len(y))
             dx == SubSeq(x1, 1, nextIdentLen(x1))
             dy == SubSeq(y1, 1, nextIdentLen(y1))
             ix == AllDigits(dx)
             iy == AllDigits(dy)
         IN  IF dx # dy
             THEN IF ix # iy THEN (IF ix THEN -1 ELSE 1)
                  ELSE IF ix /\ Len(dx) < Len(dy) THEN -1
                  ELSE IF ix /\ Len(dx) > Len(dy) THEN 1
                  ELSE IF StrLess(dx, dy) THEN -1 ELSE 1
             ELSE comparePrereleaseLoop(SubSeq(x1, Len(dx) + 1, Len(x1)),
                                        SubSeq(y1, Len(dy) + 1, Len(y1)))

\* semver's comparePrerelease: a version without pre-release is the greater.
comparePrerelease(x, y) ==
    IF x = y THEN 0
    ELSE IF x = "" THEN 1
    ELSE IF y = "" THEN -1
    ELSE comparePrereleaseLoop(x, y)

\* semver.Compare, of the two parsed versions.
compareParsed(pv, pw) ==
    IF ~pv.ok /\ ~pw.ok THEN 0
    ELSE IF ~pv.ok THEN -1
    ELSE IF ~pw.ok THEN 1
    ELSE IF compareInt(pv.Major, pw.Major) # 0 THEN compareInt(pv.Major, pw.Major)
    ELSE IF compareInt(pv.Minor, pw.Minor) # 0 THEN compareInt(pv.Minor, pw.Minor)
    ELSE IF compareInt(pv.Patch, pw.Patch) # 0 THEN compareInt(pv.Patch, pw.Patch)
    ELSE comparePrerelease(pv.Prerelease, pw.Prerelease)

\* semver.Compare: -1, 0 or 1; a string that is no version is below every
\* version and equal to every other such string.
SemverCompare(v, w) == compareParsed(SemverParse(v), SemverParse(w))

\* module.SplitPathVersion: [ok, pathMajor]; pathMajor is "/vN" for a path
\* that ends in it with N >= 2, paths ending in /v0, /v1 or /v0N are not
\* module paths.
SplitPathVersion(path) ==
    LET tail == {i \in 0..Len(path) :
                    \A j \in (i + 1)..Len(path) :
                        IsDigit(Char(path, j)) \/ Char(path, j) = "."}
        i == MinOf(tail)
        dot == \E j \in (i + 1)..Len(path) : Char(path, j) = "."
        pathMajor == SubSeq(path, i - 1, Len(path))
    IN  IF i <= 1 \/ i = Len(path) \/ Char(path, i) # "v" \/ Char(path, i - 1) # "/"
        THEN [ok |-> TRUE, pathMajor |-> ""]
        ELSE IF dot \/ Len(pathMajor) <= 2 \/ Char(pathMajor, 3) = "0" \/ pathMajor = "/v1"
        THEN [ok |-> FALSE, pathMajor |-> ""]
        ELSE [ok |-> TRUE, pathMajor |-> pathMajor]

\* changelog.GetVersionIncrement: the greatest bump the annotations ask for;
\* a release outranks a feature (minor), which outranks a bug fix (patch);
\* the default without annotations.
GetVersionIncrement(annotations) ==
    LET types == {annotations[i].Type : i \in 1..Len(annotations)}
    IN  IF "release" \in types THEN "ReleaseBump"
        ELSE IF "feature" \in types THEN "MinorBump"
        ELSE IF "bugfix" \in types THEN "PatchBump"
        ELSE "DefaultBump"

(***************************************************************************)
(* release: the version calculation.  A result is [next, err], err = ""    *)
(* for nil; a configuration is [NoTag, PreRelease].                         *)
(***************************************************************************)
\* The version of a new module with the configured track put before the
\* requested identifier.
getNewModuleVersionTrackFirst(pathMajor, increment, config, preReleaseIdentifier) ==
    LET nextVersion == IF Len(pathMajor) = 0 THEN "v1.0.0" ELSE pathMajor \o ".0.0"
        identifier == IF Len(config.PreRelease) > 0 THEN config.PreRelease
                      ELSE preReleaseIdentifier
    IN  IF increment = "ReleaseBump" /\ Len(preReleaseIdentifier) = 0 THEN nextVersion
        ELSE IF Len(identifier) > 0 THEN nextVersion \o "-" \o identifier
        ELSE nextVersion \o "-preview"

getNewModuleVersion(pathMajor, increment, config, preReleaseIdentifier) ==
    LET nextVersion == IF Len(pathMajor) = 0 THEN "v1.0.0" ELSE pathMajor \o ".0.0"
        isPreRelease == Len(preReleaseIdentifier) > 0
        identifier == IF Len(preReleaseIdentifier) > 0 THEN preReleaseIdentifier
                      ELSE config.PreRelease
    IN  IF increment = "ReleaseBump" /\ ~isPreRelease THEN nextVersion
        ELSE IF Len(identifier) > 0 THEN nextVersion \o "-" \o identifier
        ELSE nextVersion \o "-preview"

\* The number written again without the one added.
incrementStrIntSame(v) ==
    LET i == Atoi(v)
    IN  IF ~i.ok THEN [ok |-> FALSE, v |-> v] ELSE [ok |-> TRUE, v |-> Itoa(i.n)]

\* [ok, v]: the number v writes, plus one.
incrementStrInt(v) ==
    LET i == Atoi(v)
    IN  IF ~i.ok THEN [ok |-> FALSE, v |-> v] ELSE [ok |-> TRUE, v |-> Itoa(PlusOne(i.n))]

formatPreRelease(identifier) ==
    IF ~HasPrefix(identifier, "-") THEN "-" \o identifier ELSE identifier

\* The increment of the number whatever track is configured.
incrementPrereleaseNoSwitch(prerelease, configured) ==
    LET index == LastIndex(prerelease, ".")
        i == Atoi(SubSeq(prerelease, index + 1, Len(prerelease)))
    IN  IF index = 0 THEN [ok |-> TRUE, prerelease |-> prerelease \o ".1"]
        ELSE IF ~i.ok THEN [ok |-> FALSE, prerelease |-> prerelease]
        ELSE [ok |-> TRUE,
              prerelease |-> SubSeq(prerelease, 1, index) \o Itoa(PlusOne(i.n))]

\* [ok, prerelease]; the added "-" depends on the END of the identifier.
incrementPrerelease(prerelease, configured) ==
    LET identifier == IF ~HasSuffix(configured, "-") THEN "-" \o configured
                      ELSE configured
        index == LastIndex(prerelease, ".")
        i == Atoi(SubSeq(prerelease, index + 1, Len(prerelease)))
    IN  IF Len(identifier) > 0 /\ ~HasPrefix(prerelease, identifier)
        THEN [ok |-> TRUE, prerelease |-> identifier]
        ELSE IF index = 0 THEN [ok |-> TRUE, prerelease |-> prerelease \o ".1"]
        ELSE IF ~i.ok THEN [ok |-> FALSE, prerelease |-> prerelease]
        ELSE [ok |-> TRUE,
              prerelease |-> SubSeq(prerelease, 1, index) \o Itoa(PlusOne(i.n))]

\* The preview version with the track of the module, when it has one, in
\* the place of the requested identifier.
calculatePreReleaseVersionOnTrack(parsed, increment, config, preReleaseIdentifier) ==
    IF increment = "ReleaseBump" \/ Len(parsed.Prerelease) > 0
    THEN [next |-> ParsedString([parsed EXCEPT
                      !.Prerelease = formatPreRelease(
                          IF Len(config.PreRelease) > 0 THEN config.PreRelease
                          ELSE preReleaseIdentifier)]),
          err |-> ""]
    ELSE LET bumped ==
                 IF increment = "MinorBump"
                 THEN [parsed EXCEPT !.Minor = incrementStrInt(parsed.Minor).v,
                                     !.Patch = "0"]
                 ELSE [parsed EXCEPT !.Patch = incrementStrInt(parsed.Patch).v]
             failed == IF increment = "MinorBump"
                       THEN ~incrementStrInt(parsed.Minor).ok
                       ELSE ~incrementStrInt(parsed.Patch).ok
             identifier == IF ~HasPrefix(preReleaseIdentifier, "-")
                           THEN "-" \o preReleaseIdentifier
                           ELSE preReleaseIdentifier
         IN  IF failed THEN [next |-> "", err |-> "atoi"]
             ELSE [next |-> ParsedString([bumped EXCEPT !.Prerelease = identifier]),
                   err |-> ""]

\* The version after a prior version that parsed, in a pass with a preview
\* identifier: [next, err].
calculatePreReleaseVersion(parsed, increment, config, preReleaseIdentifier) ==
    IF increment = "ReleaseBump" \/ Len(parsed.Prerelease) > 0
    THEN [next |-> ParsedString([parsed EXCEPT
                      !.Prerelease = formatPreRelease(preReleaseIdentifier)]),
          err |-> ""]
    ELSE LET bumped ==
                 IF increment = "MinorBump"
                 THEN [parsed EXCEPT !.Minor = incrementStrInt(parsed.Minor).v,
                                     !.Patch = "0"]
                 ELSE [parsed EXCEPT !.Patch = incrementStrInt(parsed.Patch).v]
             failed == IF increment = "MinorBump"
                       THEN ~incrementStrInt(parsed.Minor).ok
                       ELSE ~incrementStrInt(parsed.Patch).ok
             identifier == IF ~HasPrefix(preReleaseIdentifier, "-")
                           THEN "-" \o preReleaseIdentifier
                           ELSE preReleaseIdentifier
         IN  IF failed THEN [next |-> "", err |-> "atoi"]
             ELSE [next |-> ParsedString([bumped EXCEPT !.Prerelease = identifier]),
                   err |-> ""]

\* The comparison letting a candidate equal to the prior version through.
NotHigherButEqual(next, latest) == SemverCompare(next, latest) < 0

\* The comparison of the candidate with the prior version that
\* CalculateNextVersion rejects.
NotHigher(next, latest) == SemverCompare(next, latest) <= 0

\* The calculation with a release bump of a version that is no pre-release
\* taken for a bump of the patch number.
calculateNextVersionLenient(parsed, increment, config) ==
    IF increment = "ReleaseBump" /\ Len(parsed.Prerelease) > 0
    THEN [next |-> ParsedString([parsed EXCEPT !.Prerelease = ""]), err |-> ""]
    ELSE IF Len(parsed.Prerelease) > 0
    THEN LET inc == incrementPrerelease(parsed.Prerelease, config.PreRelease)
         IN  IF ~inc.ok THEN [next |-> "", err |-> "failed to parse pre-release version number"]
             ELSE [next |-> ParsedString([parsed EXCEPT !.Prerelease = inc.prerelease]),
                   err |-> ""]
    ELSE IF Len(config.PreRelease) > 0
    THEN LET inc == incrementStrInt(parsed.Patch)
             identifier == IF ~HasPrefix(config.PreRelease, "-")
                           THEN "-" \o config.PreRelease ELSE config.PreRelease
         IN  IF ~inc.ok THEN [next |-> "", err |-> "atoi"]
             ELSE [next |-> ParsedString([parsed EXCEPT !.Patch = inc.v,
                                                         !.Prerelease = identifier]),
                   err |-> ""]
    ELSE IF increment = "MinorBump"
    THEN LET inc == incrementStrInt(parsed.Minor)
         IN  IF ~inc.ok THEN [next |-> "", err |-> "atoi"]
             ELSE [next |-> ParsedString([parsed EXCEPT !.Minor = inc.v, !.Patch = "0"]),
                   err |-> ""]
    ELSE LET inc == incrementStrInt(parsed.Patch)
         IN  IF ~inc.ok THEN [next |-> "", err |-> "atoi"]
             ELSE [next |-> ParsedString([parsed EXCEPT !.Patch = inc.v]), err |-> ""]

\* The calculation with the minor number bumped for a module on a track.
calculateNextVersionMinorTrack(parsed, increment, config) ==
    IF increment = "ReleaseBump"
    THEN IF Len(parsed.Prerelease) = 0
         THEN [next |-> "", err |-> "latest tag is not a pre-release"]
         ELSE [next |-> ParsedString([parsed EXCEPT !.Prerelease = ""]), err |-> ""]
    ELSE IF Len(parsed.Prerelease) > 0
    THEN LET inc == incrementPrerelease(parsed.Prerelease, config.PreRelease)
         IN  IF ~inc.ok THEN [next |-> "", err |-> "failed to parse pre-release version number"]
             ELSE [next |-> ParsedString([parsed EXCEPT !.Prerelease = inc.prerelease]),
                   err |-> ""]
    ELSE IF Len(config.PreRelease) > 0
    THEN LET inc == incrementStrInt(parsed.Minor)
             identifier == IF ~HasPrefix(config.PreRelease, "-")
                           THEN "-" \o config.PreRelease ELSE config.PreRelease
         IN  IF ~inc.ok THEN [next |-> "", err |-> "atoi"]
             ELSE [next |-> ParsedString([parsed EXCEPT !.Minor = inc.v, !.Patch = "0",
                                                         !.Prerelease = identifier]),
                   err |-> ""]
    ELSE IF increment = "MinorBump"
    THEN LET inc == incrementStrInt(parsed.Minor)
         IN  IF ~inc.ok THEN [next |-> "", err |-> "atoi"]
             ELSE [next |-> ParsedString([parsed EXCEPT !.Minor = inc.v, !.Patch = "0"]),
                   err |-> ""]
    ELSE LET inc == incrementStrInt(parsed.Patch)
         IN  IF ~inc.ok THEN [next |-> "", err |-> "atoi"]
             ELSE [next |-> ParsedString([parsed EXCEPT !.Patch = inc.v]), err |-> ""]

\* The version after a prior version that parsed, in a pass without preview
\* identifier: [next, err].
calculateNextVersion(parsed, increment, config) ==
    IF increment = "ReleaseBump"
    THEN IF Len(parsed.Prerelease) = 0
         THEN [next |-> "", err |-> "latest tag is not a pre-release"]
         ELSE [next |-> ParsedString([parsed EXCEPT !.Prerelease = ""]), err |-> ""]
    ELSE IF Len(parsed.Prerelease) > 0
    THEN LET inc == incrementPrerelease(parsed.Prerelease, config.PreRelease)
         IN  IF ~inc.ok THEN [next |-> "", err |-> "failed to parse pre-release version number"]
             ELSE [next |-> ParsedString([parsed EXCEPT !.Prerelease = inc.prerelease]),
                   err |-> ""]
    ELSE IF Len(config.PreRelease) > 0
    THEN LET inc == incrementStrInt(parsed.Patch)
             identifier == IF ~HasPrefix(config.PreRelease, "-")
                           THEN "-" \o config.PreRelease ELSE config.PreRelease
         IN  IF ~inc.ok THEN [next |-> "", err |-> "atoi"]
             ELSE [next |-> ParsedString([parsed EXCEPT !.Patch = inc.v,
                                                         !.Prerelease = identifier]),
                   err |-> ""]
    ELSE IF increment = "MinorBump"
    THEN LET inc == incrementStrInt(parsed.Minor)
         IN  IF ~inc.ok THEN [next |-> "", err |-> "atoi"]
             ELSE [next |-> ParsedString([parsed EXCEPT !.Minor = inc.v, !.Patch = "0"]),
                   err |-> ""]
    ELSE LET inc == incrementStrInt(parsed.Patch)
         IN  IF ~inc.ok THEN [next |-> "", err |-> "atoi"]
             ELSE [next |-> ParsedString([parsed EXCEPT !.Patch = inc.v]), err |-> ""]

\* The version CalculateNextVersion computes from the parsed prior version,
\* before it compares the two.
candidateVersion(parsed, increment, config, preReleaseIdentifier) ==
    IF ~parsed.ok THEN [next |-> "", err |-> "failed to parse semver"]
    ELSE IF Len(preReleaseIdentifier) > 0
    THEN calculatePreReleaseVersion(parsed, increment, config, preReleaseIdentifier)
    ELSE calculateNextVersion(parsed, increment, config)

\* The end of CalculateNextVersion: the candidate, when it is higher than
\* the prior version.
higherVersion(candidate, latest) ==
    IF candidate.err # "" THEN [next |-> "", err |-> candidate.err]
    ELSE IF NotHigher(candidate.next, latest)
    THEN [next |-> "", err |-> "computed next version is not higher"]
    ELSE [next |-> candidate.next, err |-> ""]

CalculateNextVersion(modulePath, latest, config, annotations, preReleaseIdentifier) ==
    LET split == SplitPathVersion(modulePath)
        pathMajor == TrimPrefix(split.pathMajor, "/")
        increment == GetVersionIncrement(annotations)
    IN  IF ~split.ok THEN [next |-> "", err |-> "invalid module path"]
        ELSE IF Len(latest) = 0
        THEN [next |-> getNewModuleVersion(pathMajor, increment, config,
                                           preReleaseIdentifier),
              err |-> ""]
        ELSE higherVersion(candidateVersion(SemverParse(SemverCanonical(latest)),
                                            increment, config, preReleaseIdentifier),
                           latest)

(***************************************************************************)
(* The version calculation over prior versions, configurations,            *)
(* annotations and preview identifiers.                                    *)
(***************************************************************************)
VersionModulePaths == {"m", "m/v2", "m/v1"}

LatestVersions ==
    {"", "v1.0.0", "v1.0.1", "v1.9.9", "v1.2", "1.1.0", "v1.1.0+build.12345",
     "v1.0.9223372036854775807", "v1.9223372036854775808.3",
     "v1.1.0-preview", "v1.1.0-preview.1", "v1.1.0-preview.9", "v1.1.0-rc.5",
     "v1.1.0-rc.5+build.12345", "v1.1.0-rc.x", "v1.1.0-foo", "v1.1.0-rc.-5"}

PreReleaseTracks == {"", "preview", "pre", "rc", "alpha", "rc-"}

PreviewIdentifiers == {"", "preview", "foo", "rc.5", "-rc"}

AnnotationLists ==
    {<<>>, <<[Type |-> "bugfix"]>>, <<[Type |-> "feature"]>>,
     <<[Type |-> "release"]>>, <<[Type |-> "bugfix"], [Type |-> "feature"]>>,
     <<[Type |-> "feature"], [Type |-> "release"]>>}

InitVersion ==
    /\ tree = NewModuleTree("")
    /\ nodes = <<>>
    /\ modules = <<>>
    /\ env = <<>>
    /\ pc = "version"
    /\ \E modulePath \in VersionModulePaths, latest \in LatestVersions,
          track \in PreReleaseTracks, annotations \in AnnotationLists,
          preReleaseIdentifier \in PreviewIdentifiers :
           ret = [modulePath |-> modulePath, latest |-> latest,
                  config |-> [NoTag |-> FALSE, PreRelease |-> track],
                  annotations |-> annotations,
                  preReleaseIdentifier |-> preReleaseIdentifier]

CallCalculateNextVersion ==
    /\ pc = "version"
    /\ pc' = "versioned"
    /\ ret' = [args |-> ret,
               result |-> CalculateNextVersion(ret.modulePath, ret.latest, ret.config,
                                               ret.annotations,
                                               ret.preReleaseIdentifier)]
    /\ UNCHANGED <<tree, nodes, modules, env>>

NextVersion == CallCalculateNextVersion

SpecVersion == InitVersion /\ [][NextVersion]_vars

(***************************************************************************)
(* release: the propagation of changes to dependents.  A module is         *)
(* [File |-> [Require], RelativeRepoPath, Latest, Changes, FileChanges,    *)
(* ChangeAnnotations, ModuleConfig]; Changes is the set of the bits set.   *)
(***************************************************************************)
ModuleChanges == {"SourceChange", "NewModule", "DependencyUpdate"}

\* The orders a range over a map with these keys can take.
Orders(keys) ==
    {o \in [1..Cardinality(keys) -> keys] : \A i, j \in DOMAIN o : o[i] = o[j] => i = j}

\* repotools.AppendIfNotPresent
AppendIfNotPresent(slice, v) ==
    IF v \in SeqToSet(slice) THEN slice ELSE Append(slice, v)

RECURSIVE dependentsOf(_, _, _)
\* reverseDepGraph[require] after the loop over the modules in this order:
\* a module once for each of its require lines that names it.
dependentsOf(mods, order, require) ==
    IF order = <<>> THEN <<>>
    ELSE LET modulePath == Head(order)
             requires == mods[modulePath].File.Require
             lines == {k \in 1..Len(requires) : requires[k] = require}
         IN  [i \in 1..Cardinality(lines) |-> modulePath]
                 \o dependentsOf(mods, Tail(order), require)

\* order is the order of the range over the map of modules.
buildInverseDependencyGraph(mods, order) ==
    LET required == {r \in DOMAIN mods :
                        \E m \in DOMAIN mods : r \in SeqToSet(mods[m].File.Require)}
    IN  [r \in required |-> dependentsOf(mods, order, r)]

RECURSIVE markDependentsOnce(_, _, _, _)
\* The loop over the dependents without the return to the work list.
markDependentsOnce(mods, graph, toVisit, dependents) ==
    IF dependents = <<>> THEN [modules |-> mods, toVisit |-> toVisit]
    ELSE LET dependent == Head(dependents)
         IN  IF "DependencyUpdate" \in mods[dependent].Changes
             THEN markDependentsOnce(mods, graph, toVisit, Tail(dependents))
             ELSE markDependentsOnce(
                      [mods EXCEPT ![dependent].Changes = @ \cup {"DependencyUpdate"}],
                      graph, toVisit, Tail(dependents))

RECURSIVE markDependentsAgain(_, _, _, _)
\* The loop over the dependents with a dependent returned to the work list
\* although its bit is set already.
markDependentsAgain(mods, graph, toVisit, dependents) ==
    IF dependents = <<>> THEN [modules |-> mods, toVisit |-> toVisit]
    ELSE LET dependent == Head(dependents)
         IN  markDependentsAgain(
                 [mods EXCEPT ![dependent].Changes = @ \cup {"DependencyUpdate"}],
                 graph,
                 IF dependent \in DOMAIN graph
                 THEN AppendIfNotPresent(toVisit, dependent) ELSE toVisit,
                 Tail(dependents))

RECURSIVE markDependentsAppend(_, _, _, _)
\* The loop over the dependents with a dependent appended to the work list
\* although it is in it.
markDependentsAppend(mods, graph, toVisit, dependents) ==
    IF dependents = <<>> THEN [modules |-> mods, toVisit |-> toVisit]
    ELSE LET dependent == Head(dependents)
         IN  IF "DependencyUpdate" \in mods[dependent].Changes
             THEN markDependentsAppend(mods, graph, toVisit, Tail(dependents))
             ELSE markDependentsAppend(
                      [mods EXCEPT ![dependent].Changes = @ \cup {"DependencyUpdate"}],
                      graph,
                      IF dependent \in DOMAIN graph
                      THEN Append(toVisit, dependent) ELSE toVisit,
                      Tail(dependents))

RECURSIVE markDependents(_, _, _, _)
\* The loop over the dependents of the current module: [modules, toVisit].
markDependents(mods, graph, toVisit, dependents) ==
    IF dependents = <<>> THEN [modules |-> mods, toVisit |-> toVisit]
    ELSE LET dependent == Head(dependents)
         IN  IF "DependencyUpdate" \in mods[dependent].Changes
             THEN markDependents(mods, graph, toVisit, Tail(dependents))
             ELSE markDependents(
                      [mods EXCEPT ![dependent].Changes = @ \cup {"DependencyUpdate"}],
                      graph,
                      IF dependent \in DOMAIN graph
                      THEN AppendIfNotPresent(toVisit, dependent) ELSE toVisit,
                      Tail(dependents))

RECURSIVE visitLoopNoTagFirst(_, _, _)
\* The loop with the exemption from tagging looked at before the changes.
visitLoopNoTagFirst(mods, graph, toVisit) ==
    IF toVisit = <<>> THEN [modules |-> mods, err |-> ""]
    ELSE LET current == Head(toVisit)
             m == mods[current]
             dependents == graph[current]
             marked == markDependents(mods, graph, Tail(toVisit), dependents)
         IN  IF m.ModuleConfig.NoTag /\ Len(dependents) > 0
             THEN [modules |-> mods,
                   err |-> "module is configured for no releases, but has dependents"]
             ELSE IF m.Changes = {} \/ m.ModuleConfig.NoTag
             THEN visitLoopNoTagFirst(mods, graph, Tail(toVisit))
             ELSE visitLoopNoTagFirst(marked.modules, graph, marked.toVisit)

RECURSIVE visitLoop(_, _, _)
\* The loop over toVisit: [modules, err]; the modules keep what was set
\* before an error.
visitLoop(mods, graph, toVisit) ==
    IF toVisit = <<>> THEN [modules |-> mods, err |-> ""]
    ELSE LET current == Head(toVisit)
             m == mods[current]
             dependents == graph[current]
             marked == markDependents(mods, graph, Tail(toVisit), dependents)
         IN  IF m.Changes = {} THEN visitLoop(mods, graph, Tail(toVisit))
             ELSE IF m.ModuleConfig.NoTag /\ Len(dependents) > 0
             THEN [modules |-> mods,
                   err |-> "module is configured for no releases, but has dependents"]
             ELSE IF m.ModuleConfig.NoTag THEN visitLoop(mods, graph, Tail(toVisit))
             ELSE visitLoop(marked.modules, graph, marked.toVisit)

\* order is the order of the range over the map of modules; the order of the
\* range over the graph is lost in the sort.
CalculateDependencyUpdates(mods, order) ==
    LET reverseDepGraph == buildInverseDependencyGraph(mods, order)
        toVisit == SortStrings(CHOOSE o \in Orders(DOMAIN reverseDepGraph) : TRUE)
    IN  visitLoop(mods, reverseDepGraph, toVisit)

(***************************************************************************)
(* The propagation over the requirements of three modules of the           *)
(* repository, among themselves and of a module "x" that is not of the     *)
(* repository.                                                             *)
(***************************************************************************)
MaxRequires == 3

DepModules == {"a", "b", "c"}

RequireLines == (DepModules \X DepModules) \cup {<<"a", "x">>}

InitialChanges == {{}, {"SourceChange"}, {"NewModule"}, {"DependencyUpdate"}}

\* The module repository tests build: a path, what it requires, its changes.
depModule(modulePath, requires, changes, noTag) ==
    [File |-> [Require |-> requires], RelativeRepoPath |-> modulePath, Latest |-> "",
     Changes |-> changes, FileChanges |-> <<>>, ChangeAnnotations |-> <<>>,
     ModuleConfig |-> [NoTag |-> noTag, PreRelease |-> ""]]

InitDeps ==
    /\ tree = NewModuleTree("")
    /\ nodes = <<>>
    /\ env = <<>>
    /\ ret = [before |-> <<>>, err |-> ""]
    /\ pc = "propagate"
    /\ \E lines \in {E \in SUBSET RequireLines : Cardinality(E) <= MaxRequires},
          changes \in [DepModules -> InitialChanges],
          noTag \in {{}, {"b"}} :
           modules = [m \in DepModules |->
                         depModule(m,
                                   SortStrings(CHOOSE o \in Orders({l[2] : l \in {e \in lines : e[1] = m}}) : TRUE),
                                   changes[m], m \in noTag)]

CallCalculateDependencyUpdates ==
    /\ pc = "propagate"
    /\ pc' = "propagated"
    /\ \E order \in Orders(DOMAIN modules) :
           /\ modules' = CalculateDependencyUpdates(modules, order).modules
           /\ ret' = [before |-> modules,
                      err |-> CalculateDependencyUpdates(modules, order).err]
    /\ UNCHANGED <<tree, nodes, env>>

NextDeps == CallCalculateDependencyUpdates

SpecDeps == InitDeps /\ [][NextDeps]_vars

(***************************************************************************)
(* CalculateDependencyUpdates, one turn of its loop over toVisit at a      *)
(* step.  env holds the graph, toVisit and, for every module, how often    *)
(* the loop over its dependents was run: before and after the module's     *)
(* own DependencyUpdate bit was set.                                       *)
(***************************************************************************)
\* The call, up to the loop: the graph and the sorted work list.
StartPropagation ==
    /\ pc = "propagate"
    /\ \E order \in Orders(DOMAIN modules) :
           LET reverseDepGraph == buildInverseDependencyGraph(modules, order)
               toVisit == SortStrings(CHOOSE o \in Orders(DOMAIN reverseDepGraph) : TRUE)
           IN  /\ env' = [graph |-> reverseDepGraph,
                          toVisit |-> toVisit,
                          order |-> order,
                          scans |-> [m \in DOMAIN modules |-> [unset |-> 0, set |-> 0]]]
               /\ pc' = IF toVisit = <<>> THEN "propagated" ELSE "visit"
    /\ ret' = [before |-> modules, err |-> ""]
    /\ UNCHANGED <<tree, nodes, modules>>

\* One turn of the loop; the call returns when toVisit is empty, or with
\* the error.
VisitModule ==
    /\ pc = "visit"
    /\ LET current == Head(env.toVisit)
           turn(mods, toVisit, err, scanned) ==
               /\ modules' = mods
               /\ env' = [env EXCEPT
                             !.toVisit = toVisit,
                             !.scans[current] =
                                 IF ~scanned THEN @
                                 ELSE IF "DependencyUpdate" \in modules[current].Changes
                                 THEN [@ EXCEPT !.set = @ + 1]
                                 ELSE [@ EXCEPT !.unset = @ + 1]]
               /\ ret' = [ret EXCEPT !.err = err]
               /\ pc' = IF err # "" \/ toVisit = <<>> THEN "propagated" ELSE "visit"
       IN  IF modules[current].Changes = {}
           THEN turn(modules, Tail(env.toVisit), "", FALSE)
           ELSE IF modules[current].ModuleConfig.NoTag /\ Len(env.graph[current]) > 0
           THEN turn(modules, Tail(env.toVisit),
                     "module is configured for no releases, but has dependents", FALSE)
           ELSE IF modules[current].ModuleConfig.NoTag
           THEN turn(modules, Tail(env.toVisit), "", FALSE)
           ELSE turn(markDependents(modules, env.graph, Tail(env.toVisit),
                                    env.graph[current]).modules,
                     markDependents(modules, env.graph, Tail(env.toVisit),
                                    env.graph[current]).toVisit,
                     "", TRUE)
    /\ UNCHANGED <<tree, nodes>>

SpecPropagation == InitDeps /\ [][StartPropagation \/ VisitModule]_vars

(***************************************************************************)
(* release.Calculate.  The collaborators are in env: tags (module path ->  *)
(* its versions, latest first), changed (the files git reports changed     *)
(* since a tag), tagged (the files of the tree at a tag), worktree (the    *)
(* files on disk), gomod (directory -> [Path, Require] of its go.mod),     *)
(* config (path -> ModuleConfig) and annotations.  All files are relative  *)
(* to the root of the repository.                                          *)
(***************************************************************************)
tombstonedModuleAttrib == "tombstone"

\* git.ModuleTags.Latest: [v, ok]
TagsLatest(tags, modulePath) ==
    IF modulePath \in DOMAIN tags /\ Len(tags[modulePath]) > 0
    THEN [v |-> tags[modulePath][1], ok |-> TRUE]
    ELSE [v |-> "", ok |-> FALSE]

\* What git.Changes and git.LsTree list for a path: the files below it.
filesUnder(files, path) ==
    SelectSeq(files, LAMBDA f : path = "." \/ HasPrefix(f, path \o "/"))

\* listRelFiles: the walk of the module's directory over the files on disk,
\* and each file it finds relative to the root; no file for a directory that
\* is not there.
listRelFiles(rootPath, modulePath, worktree) ==
    LET onDisk == [i \in 1..Len(worktree) |-> Join(rootPath, worktree[i])]
        walked == SelectSeq(onDisk, LAMBDA f : HasPrefix(f, modulePath \o "/"))
    IN  [i \in 1..Len(walked) |-> Rel(rootPath, walked[i]).path]

\* The end of isModuleCarvedOut, over the files the module owns.
carvedOutOf(files) ==
    /\ ~\E i \in 1..Len(files) : IsGoMod(SplitFile(files[i]))
    /\ \E i \in 1..Len(files) : IsGoSource(SplitFile(files[i]))

isModuleCarvedOut(module, files) == carvedOutOf(FilterModuleFiles(module, files))

\* The loop with the sub modules that have a tag examined as well.
hasCarveOutEvenTagged(module) ==
    \E k \in 1..Len(NodeList(module)) :
        LET subModule == NodeList(module)[k]
        IN  /\ ~HasAttribute(module, tombstonedModuleAttrib)
            /\ isModuleCarvedOut(subModule, filesUnder(env.tagged, Path(subModule)))

\* The loop of Calculate over the sub modules of a module without changes:
\* some sub module without a tag is carved out.  The loop looks for the
\* tombstone attribute on the module, not on the sub module.
hasCarveOut(module) ==
    \E k \in 1..Len(NodeList(module)) :
        LET subModule == NodeList(module)[k]
        IN  /\ ~HasAttribute(module, tombstonedModuleAttrib)
            /\ ~TagsLatest(env.tags, Path(subModule)).ok
            /\ isModuleCarvedOut(subModule, filesUnder(env.tagged, Path(subModule)))

\* map[string]ModuleConfig lookup: the zero value for a missing key.
configOf(config, key) ==
    IF key \in DOMAIN config THEN config[key]
    ELSE [NoTag |-> FALSE, PreRelease |-> ""]

\* The Module Calculate records for a module with these changes.
checkedModule(module, latest, changes) ==
    LET hasChanges == latest.ok /\ (Len(changes) # 0 \/ hasCarveOut(module))
    IN  [File |-> [Require |-> env.gomod[Path(module)].Require],
         RelativeRepoPath |-> Path(module),
         Latest |-> latest.v,
         Changes |-> IF hasChanges /\ Len(latest.v) > 0 THEN {"SourceChange"}
                     ELSE IF Len(latest.v) = 0 THEN {"NewModule"}
                     ELSE {},
         FileChanges |-> changes,
         ChangeAnnotations |->
             SelectSeq(env.annotations, LAMBDA a : Path(module) \in a.Modules),
         ModuleConfig |-> configOf(env.config, Path(module))]

\* The body of the loop with the changes of the sub modules left in.
checkModuleUnfiltered(module) ==
    checkedModule(module, TagsLatest(env.tags, Path(module)),
                  IF TagsLatest(env.tags, Path(module)).ok
                  THEN filesUnder(env.changed, Path(module))
                  ELSE <<>>)

\* The body of the loop of Calculate for a module that is no tombstone.
checkModule(module) ==
    checkedModule(module, TagsLatest(env.tags, Path(module)),
                  IF TagsLatest(env.tags, Path(module)).ok
                  THEN FilterModuleFiles(module, filesUnder(env.changed, Path(module)))
                  ELSE <<>>)

RECURSIVE checkModulesAnyFile(_, _)
\* The loop with the files of the sub modules left in the listing of a
\* tombstone.
checkModulesAnyFile(list, checkedModules) ==
    IF list = <<>> THEN [modules |-> checkedModules, err |-> ""]
    ELSE IF HasAttribute(Head(list), tombstonedModuleAttrib)
    THEN IF Len(listRelFiles(tree.options.RootPath, AbsPath(Head(list)),
                             env.worktree)) # 0
         THEN [modules |-> <<>>, err |-> "tombstone module has go source files"]
         ELSE checkModulesAnyFile(Tail(list), checkedModules)
    ELSE checkModulesAnyFile(Tail(list),
                      (env.gomod[Path(Head(list))].Path :> checkModule(Head(list)))
                          @@ checkedModules)

RECURSIVE checkModules(_, _)
\* The loop of Calculate over the nodes of the tree: [modules, err].
checkModules(list, checkedModules) ==
    IF list = <<>> THEN [modules |-> checkedModules, err |-> ""]
    ELSE IF HasAttribute(Head(list), tombstonedModuleAttrib)
    THEN IF Len(FilterModuleFiles(Head(list),
                    listRelFiles(tree.options.RootPath, AbsPath(Head(list)),
                                 env.worktree))) # 0
         THEN [modules |-> <<>>, err |-> "tombstone module has go source files"]
         ELSE checkModules(Tail(list), checkedModules)
    ELSE checkModules(Tail(list),
                      (env.gomod[Path(Head(list))].Path :> checkModule(Head(list)))
                          @@ checkedModules)

\* The end of Calculate: the modules with changes that are not exempt from
\* tagging; the exemption is looked up by the path of the go.mod.
releasedModules(propagated, config) ==
    IF propagated.err # "" THEN [modules |-> <<>>, err |-> propagated.err]
    ELSE [modules |->
              [m \in {k \in DOMAIN propagated.modules :
                         ~(propagated.modules[k].Changes = {} \/ configOf(config, k).NoTag)}
                  |-> propagated.modules[m]],
          err |-> ""]

\* Calculate after the tombstones are in the tree: [modules, err, checked];
\* checked is the map before CalculateDependencyUpdates.  order is the
\* order of its range over the map.
calculated(checked, order) ==
    IF checked.err # "" THEN [modules |-> <<>>, err |-> checked.err, checked |-> <<>>]
    ELSE [checked |-> checked.modules]
             @@ releasedModules(CalculateDependencyUpdates(checked.modules, order),
                                env.config)

(***************************************************************************)
(* Calculate over a repository of up to three modules: the discovery walk  *)
(* builds the tree, the call draws what the collaborators answer, inserts  *)
(* the tombstones and calculates.                                          *)
(***************************************************************************)
CalcRoot == "/r"

CalcPaths == {".", "a", "a/b"}

\* The files the collaborators may list, by list, MaxFiles of them at most.
CalcFiles ==
    ({"changed"} \X {"x.go", "a/x.go", "a/b/x.go"})
        \cup ({"worktree"} \X {"a/x.go", "a/b/x.go"})
        \cup ({"tagged"} \X {"a/x.go", "a/go.mod", "a/b/x.go"})

\* The require lines of the go.mod files: directory, required directory.
CalcRequires == {{}, {<<"a/b", "a">>}, {<<".", "a">>}, {<<".", "a">>, <<"a", "a/b">>}}

CalcConfigs == {<<>>, "a" :> [NoTag |-> TRUE, PreRelease |-> ""]}

CalcAnnotations == <<[ID |-> "note", Type |-> "feature", Modules |-> {"a"}]>>

\* The module path of the go.mod of a directory of the repository "m".
GoModPath(dir) == IF dir = "." THEN "m" ELSE "m/" \o dir

\* A set of strings as a sorted list.
SortedList(S) == SortStrings(CHOOSE o \in Orders(S) : TRUE)

InitCalc ==
    /\ tree = NewModuleTree(CalcRoot)
    /\ nodes = <<>>
    /\ modules = <<>>
    /\ env = <<>>
    /\ ret = [node |-> NilNode, err |-> ""]
    /\ pc = "discover"

\* Discoverer.walkChildModules for a directory with a go.mod; the walk is
\* in lexical order.
DiscoverModule ==
    /\ pc = "discover"
    /\ \E p \in CalcPaths :
           /\ \A n \in 1..Len(nodes) : StrLess(Path(n), p)
           /\ Insert(Join(CalcRoot, p), <<>>)
    /\ UNCHANGED <<pc, modules, env>>

\* The call of Calculate and what its collaborators will answer.
CallCalculate ==
    /\ pc = "discover"
    /\ pc' = "tombstones"
    /\ \E tagged \in SUBSET CalcPaths, requires \in CalcRequires,
          config \in CalcConfigs,
          files \in {F \in SUBSET CalcFiles : Cardinality(F) <= MaxFiles} :
           LET discovered == {Path(n) : n \in 1..Len(nodes)}
               listed(kind) == {f[2] : f \in {g \in files : g[1] = kind}}
           IN  env' = [tags |-> [t \in tagged |-> <<"v1.0.0">>],
                       changed |-> SortedList(listed("changed")),
                       tagged |-> SortedList(listed("tagged")),
                       worktree |-> SortedList(listed("worktree")
                                       \cup {Join(d, "go.mod") : d \in discovered}),
                       gomod |-> [d \in discovered |->
                                     [Path |-> GoModPath(d),
                                      Require |-> SortedList(
                                          {GoModPath(r[2]) : r \in {q \in requires : q[1] = d}})]],
                       config |-> config,
                       annotations |-> CalcAnnotations]
    /\ UNCHANGED <<tree, nodes, modules, ret>>

\* Calculate's loop over the tags: a tombstone for a tag without a module.
InsertTombstone ==
    /\ pc = "tombstones"
    /\ \E moduleTag \in DOMAIN env.tags :
           /\ TreeGet(moduleTag) = NilNode
           /\ InsertRel(moduleTag, <<tombstonedModuleAttrib>>)
    /\ UNCHANGED <<pc, modules, env>>

\* The rest of Calculate, once every tag has its node.
CalculateModules ==
    /\ pc = "tombstones"
    /\ \A moduleTag \in DOMAIN env.tags : TreeGet(moduleTag) # NilNode
    /\ pc' = "calculated"
    /\ \E order \in Orders(DOMAIN checkModules(TreeList, <<>>).modules) :
           /\ modules' = calculated(checkModules(TreeList, <<>>), order).modules
           /\ ret' = [checked |-> calculated(checkModules(TreeList, <<>>), order).checked,
                      err |-> calculated(checkModules(TreeList, <<>>), order).err]
    /\ UNCHANGED <<tree, nodes, env>>

NextCalc == DiscoverModule \/ CallCalculate \/ InsertTombstone \/ CalculateModules

SpecCalc == InitCalc /\ [][NextCalc]_vars

(***************************************************************************)
(* release.BuildReleaseManifest.  A manifest is [ID, WithReleaseTag,       *)
(* Modules, Tags]; a result is [rm, err].                                  *)
(***************************************************************************)
\* git.ToModuleTag: "{path}/{version}", the bare version for the root.
ToModuleTag(modulePath, version) ==
    IF modulePath = "." THEN version ELSE modulePath \o "/" \o version

annotationsToIDs(annotations) == [i \in 1..Len(annotations) |-> annotations[i].ID]

\* The modules the loop of BuildReleaseManifest passes over, NoTag or not.
skippedIfUnchanged(mod) == mod.Changes = {}

\* The modules the loop of BuildReleaseManifest passes over.
skipped(mod) == mod.Changes = {} \/ mod.ModuleConfig.NoTag

\* FindModuleViaRelativeRepoPath: [ok, module], the first module of the
\* range over the map with the path.
FindModuleViaRelativeRepoPath(mods, order, relPath) ==
    LET found == {i \in 1..Len(order) : mods[order[i]].RelativeRepoPath = relPath}
    IN  IF found = {} THEN [ok |-> FALSE, Latest |-> ""]
        ELSE [ok |-> TRUE, Latest |-> mods[order[MinOf(found)]].Latest]

\* Manifest{}
NoManifest == [ID |-> "", WithReleaseTag |-> FALSE, Modules |-> <<>>, Tags |-> <<>>]

RECURSIVE releaseModules(_, _, _, _, _)
RECURSIVE releaseModule(_, _, _, _, _, _)
\* The body of the loop for a module that is not passed over, with the
\* result of CalculateNextVersion for it.
releaseModule(mods, order, rm, verbose, preRelease, nextVersion) ==
    LET modulePath == Head(order)
        mod == mods[modulePath]
        mm == [ModulePath |-> modulePath, From |-> mod.Latest,
               To |-> nextVersion.next, Changes |-> mod.Changes,
               FileChanges |-> IF verbose THEN mod.FileChanges ELSE <<>>,
               Annotations |-> annotationsToIDs(mod.ChangeAnnotations)]
    IN  IF nextVersion.err # "" THEN [rm |-> NoManifest, err |-> nextVersion.err]
        ELSE releaseModules(mods, Tail(order),
                 [rm EXCEPT !.Modules = (mod.RelativeRepoPath :> mm) @@ @,
                            !.Tags = Append(@, ToModuleTag(mod.RelativeRepoPath,
                                                           nextVersion.next))],
                 verbose, preRelease)

\* The loop of BuildReleaseManifest over the modules, in the order of the
\* range over the map.
releaseModules(mods, order, rm, verbose, preRelease) ==
    IF order = <<>> THEN [rm |-> rm, err |-> ""]
    ELSE IF skipped(mods[Head(order)])
    THEN releaseModules(mods, Tail(order), rm, verbose, preRelease)
    ELSE releaseModule(mods, order, rm, verbose, preRelease,
             CalculateNextVersion(Head(order), mods[Head(order)].Latest,
                                  mods[Head(order)].ModuleConfig,
                                  mods[Head(order)].ChangeAnnotations, preRelease))

\* The end of BuildReleaseManifest: the identifier of a repository of one
\* module, and the sort of the tags.
finishManifest(released, mods, order, repoModuleList) ==
    IF released.err # "" THEN released
    ELSE IF Len(repoModuleList) # 1
    THEN [rm |-> [released.rm EXCEPT !.Tags = SortStrings(@)], err |-> ""]
    ELSE IF Path(repoModuleList[1]) \in DOMAIN released.rm.Modules
    THEN [rm |-> [released.rm EXCEPT
                     !.ID = released.rm.Modules[Path(repoModuleList[1])].To,
                     !.WithReleaseTag = FALSE,
                     !.Tags = SortStrings(@)],
          err |-> ""]
    ELSE IF ~FindModuleViaRelativeRepoPath(mods, order, Path(repoModuleList[1])).ok
    THEN [rm |-> NoManifest, err |-> "root module metadata not found"]
    ELSE [rm |-> [released.rm EXCEPT
                     !.ID = FindModuleViaRelativeRepoPath(
                                mods, order, Path(repoModuleList[1])).Latest,
                     !.WithReleaseTag = FALSE,
                     !.Tags = SortStrings(@)],
          err |-> ""]

\* order is the order of the ranges over the map of modules.
BuildReleaseManifest(id, mods, order, verbose, preRelease) ==
    finishManifest(
        releaseModules(mods, order,
                       [ID |-> id, WithReleaseTag |-> TRUE, Modules |-> <<>>,
                        Tags |-> <<>>],
                       verbose, preRelease),
        mods, order, TreeList)

(***************************************************************************)
(* BuildReleaseManifest over the discovered tree and up to two modules in  *)
(* any release state.                                                      *)
(***************************************************************************)
ManifestPaths == {".", "a"}

ManifestID == "2021-10-27"

\* The release states of a module: [Latest, Changes, NoTag, annotations].
ManifestModules ==
    [Latest : {"", "v1.0.0"},
     Changes : {{}, {"SourceChange"}, {"NewModule", "DependencyUpdate"}},
     NoTag : BOOLEAN,
     ChangeAnnotations : {<<>>, <<[ID |-> "note", Type |-> "release", Modules |-> {}]>>}]

CallBuildReleaseManifest ==
    /\ pc = "discover"
    /\ pc' = "manifest"
    /\ \E paths \in SUBSET ManifestPaths, verbose \in BOOLEAN, preRelease \in {"", "foo"} :
         \E states \in [paths -> ManifestModules] :
           LET mods == [k \in {GoModPath(d) : d \in paths} |->
                           LET d == CHOOSE q \in paths : GoModPath(q) = k
                           IN  [File |-> [Require |-> <<>>], RelativeRepoPath |-> d,
                                Latest |-> states[d].Latest,
                                Changes |-> states[d].Changes,
                                FileChanges |-> <<Join(d, "x.go")>>,
                                ChangeAnnotations |-> states[d].ChangeAnnotations,
                                ModuleConfig |-> [NoTag |-> states[d].NoTag,
                                                  PreRelease |-> ""]]]
           IN  \E order \in Orders(DOMAIN mods) :
                   /\ modules' = mods
                   /\ ret' = [verbose |-> verbose, preRelease |-> preRelease]
                                 @@ BuildReleaseManifest(ManifestID, mods, order,
                                                         verbose, preRelease)
    /\ UNCHANGED <<tree, nodes, env>>

NextManifest == DiscoverModule \/ CallBuildReleaseManifest

SpecManifest == InitCalc /\ [][NextManifest]_vars

(***************************************************************************)
(* The pass of the calculaterelease command: the discovery, Calculate, and *)
(* BuildReleaseManifest over the tree Calculate has worked on and the      *)
(* modules it returned.  The command stops at an error of Calculate.       *)
(***************************************************************************)
PreviewFlags == {"", "foo"}

BuildManifest ==
    /\ pc = "calculated"
    /\ ret.err = ""
    /\ pc' = "released"
    /\ \E order \in Orders(DOMAIN modules), verbose \in BOOLEAN,
          preRelease \in PreviewFlags :
           ret' = [checked |-> ret.checked, preRelease |-> preRelease]
                      @@ BuildReleaseManifest(ManifestID, modules, order, verbose,
                                              preRelease)
    /\ UNCHANGED <<tree, nodes, modules, env>>

NextRelease == NextCalc \/ BuildManifest

SpecRelease == InitCalc /\ [][NextRelease]_vars

(***************************************************************************)
(* release.NextReleaseID.  A time is [year, month, day]; the layout of the *)
(* dates is "2006-01-02".                                                  *)
(***************************************************************************)
RECURSIVE latestReleaseNum(_, _, _)
\* The loop of NextReleaseID over the tags: the latest number of the day.
latestReleaseNum(tags, nextTime, latestNum) ==
    LET digit(value, i) == Ord(Char(value, i)) - Ord("0")
        daysIn(year, month) ==
            IF month \in {4, 6, 9, 11} THEN 30
            ELSE IF month # 2 THEN 31
            ELSE IF year % 4 = 0 /\ (year % 100 # 0 \/ year % 400 = 0) THEN 29
            ELSE 28
        \* time.Parse of the layout: [ok, t]
        timeParse(value) ==
            IF ~(/\ Len(value) = 10
                 /\ Char(value, 5) = "-" /\ Char(value, 8) = "-"
                 /\ \A i \in {1, 2, 3, 4, 6, 7, 9, 10} : IsDigit(Char(value, i)))
            THEN [ok |-> FALSE, t |-> [year |-> 0, month |-> 0, day |-> 0]]
            ELSE LET t == [year |-> 1000 * digit(value, 1) + 100 * digit(value, 2)
                                        + 10 * digit(value, 3) + digit(value, 4),
                           month |-> 10 * digit(value, 6) + digit(value, 7),
                           day |-> 10 * digit(value, 9) + digit(value, 10)]
                 IN  [ok |-> /\ t.month \in 1..12
                             /\ t.day \in 1..daysIn(t.year, t.month),
                      t |-> t]
        tag == TrimPrefix(Head(tags), "release-")
        dot == IndexOf(tag, ".")
        split == IF dot = 0 THEN <<tag>>
                 ELSE <<SubSeq(tag, 1, dot - 1), SubSeq(tag, dot + 1, Len(tag))>>
    IN  IF tags = <<>> THEN latestNum
        ELSE IF ~HasPrefix(Head(tags), "release-")
        THEN latestReleaseNum(Tail(tags), nextTime, latestNum)
        ELSE IF ~timeParse(split[1]).ok
        THEN latestReleaseNum(Tail(tags), nextTime, latestNum)
        ELSE IF timeParse(split[1]).t # nextTime
        THEN latestReleaseNum(Tail(tags), nextTime, latestNum)
        ELSE IF Len(split) # 2
        THEN latestReleaseNum(Tail(tags), nextTime,
                              IF latestNum = [neg |-> FALSE, mag |-> "0"]
                              THEN [neg |-> FALSE, mag |-> "1"]
                              ELSE latestNum)
        ELSE IF ~Atoi(split[2]).ok
        THEN latestReleaseNum(Tail(tags), nextTime, latestNum)
        ELSE IF ~Atoi(split[2]).n.neg /\ MagLess(latestNum.mag, Atoi(split[2]).n.mag)
        THEN latestReleaseNum(Tail(tags), nextTime, Atoi(split[2]).n)
        ELSE latestReleaseNum(Tail(tags), nextTime, latestNum)

\* NextReleaseID with the latest number of the day in the place of the next.
NextReleaseIDLatest(tags, now) ==
    LET digit(n) == Char("0123456789", (n % 10) + 1)
        pad2(n) == digit(n \div 10) \o digit(n)
        \* Time.Format of the layout
        format(t) == pad2(t.year \div 100) \o pad2(t.year) \o "-" \o pad2(t.month)
                         \o "-" \o pad2(t.day)
        nextTime == [year |-> now.year, month |-> now.month, day |-> now.day]
        latestNum == latestReleaseNum(tags, nextTime, [neg |-> FALSE, mag |-> "0"])
    IN  IF latestNum = [neg |-> FALSE, mag |-> "0"] THEN format(nextTime)
        ELSE format(nextTime) \o "." \o Itoa(latestNum)

\* NextReleaseID at the time now, of which it takes the day.
NextReleaseID(tags, now) ==
    LET digit(n) == Char("0123456789", (n % 10) + 1)
        pad2(n) == digit(n \div 10) \o digit(n)
        \* Time.Format of the layout
        format(t) == pad2(t.year \div 100) \o pad2(t.year) \o "-" \o pad2(t.month)
                         \o "-" \o pad2(t.day)
        nextTime == [year |-> now.year, month |-> now.month, day |-> now.day]
        latestNum == latestReleaseNum(tags, nextTime, [neg |-> FALSE, mag |-> "0"])
    IN  IF latestNum = [neg |-> FALSE, mag |-> "0"] THEN format(nextTime)
        ELSE format(nextTime) \o "." \o Itoa(PlusOne(latestNum))

(***************************************************************************)
(* NextReleaseID on lists of tags, on two days.                            *)
(***************************************************************************)
\* The tags of the repository, of which a call gets a part, in this order
\* or in the reverse one.
ReleaseTags ==
    <<"release-2021-05-06", "release-2021-05-06.2", "release-2021-05-06.10",
      "release-2021-05-06.0", "release-2021-05-06.x", "release-2021-05-04.7",
      "release-2021-5-6.4", "v1.2.0", "2021-05-06.5",
      "release-2021-05-06.9223372036854775807">>

InitReleaseID ==
    /\ tree = NewModuleTree("")
    /\ nodes = <<>>
    /\ modules = <<>>
    /\ ret = [next |-> ""]
    /\ pc = "tags"
    /\ \E chosen \in SUBSET (1..Len(ReleaseTags)), reversed \in BOOLEAN,
          day \in {4, 6} :
           LET tags == SelectSeq([i \in 1..Len(ReleaseTags) |-> i],
                                 LAMBDA i : i \in chosen)
           IN  env = [tags |-> [i \in 1..Len(tags) |->
                                   ReleaseTags[IF reversed
                                               THEN tags[Len(tags) + 1 - i]
                                               ELSE tags[i]]],
                      now |-> [year |-> 2021, month |-> 5, day |-> day,
                               hour |-> 7, minute |-> 8]]

CallNextReleaseID ==
    /\ pc = "tags"
    /\ pc' = "identified"
    /\ ret' = [next |-> NextReleaseID(env.tags, env.now)]
    /\ UNCHANGED <<tree, nodes, modules, env>>

SpecReleaseID == InitReleaseID /\ [][CallNextReleaseID]_vars

(***************************************************************************)
(* The claims about the module tree.                                       *)
(***************************************************************************)
NodeIds == 1..Len(nodes)

\* The layers of the tree: the top layer and the sub modules of every node.
Parents == {NilNode} \cup NodeIds

\* Path p is path q or a directory above it ("." is above every path).
IsAbove(p, q) ==
    \/ p = "."
    \/ p = q
    \/ Len(q) > Len(p) /\ SubSeq(q, 1, Len(p) + 1) = p \o "/"

\* The nodes whose path is above q, and the closest of them: the one every
\* other one is above.
NodesAbove(q) == {n \in NodeIds : IsAbove(Path(n), q)}

Closest(S) ==
    IF S = {} THEN NilNode
    ELSE CHOOSE n \in S : \A m \in S : IsAbove(Path(m), Path(n))

\* The paths asked of Search, Get and ParentOf: the inserted ones, and
\* directories below, beside and above them.
QueryPaths ==
    ModulePaths \cup {"a/foo", "a/b/a", "a/f", "abc", "ab/c", "e", "e/f/g/h", "d"}

\* C3: at every layer of the tree no sibling is an ancestor of another
\* sibling's path, the siblings are in ascending order of their relative
\* path, and every child's path is strictly below its parent's path.
C3_LayersUnrelatedSortedNested ==
    \A parent \in Parents :
        LET layer == Layer(parent)
        IN  /\ \A i, j \in 1..Len(layer) :
                  i # j => ~IsAbove(Path(layer[i]), Path(layer[j]))
            /\ \A i, j \in 1..Len(layer) :
                  i < j => StrLess(Path(layer[i]), Path(layer[j]))
            /\ parent # NilNode =>
                  \A i \in 1..Len(layer) :
                      /\ IsAbove(Path(parent), Path(layer[i]))
                      /\ Path(layer[i]) # Path(parent)

\* A tree of three layers with two siblings below the top and a node that
\* was re-parented under a later insert.
C3_Witness ==
    \E n, m, k \in NodeIds :
        /\ n \in SeqToSet(tree.subModules)
        /\ Len(nodes[n].subModules) = 2
        /\ m = nodes[n].subModules[1]
        /\ k \in SeqToSet(nodes[m].subModules)
        /\ k < m

\* C4: the tree is the one the set of inserted paths fixes: the nodes of a
\* layer are exactly the nodes whose closest inserted strict ancestor is the
\* layer's node (the top layer holds those with none), each once, and a
\* re-parented node keeps its own sub modules.
C4_ShapeFromPathSet ==
    /\ \A n, m \in NodeIds : n # m => Path(n) # Path(m)
    /\ \A parent \in Parents :
          LET layer == Layer(parent)
          IN  /\ SeqToSet(layer) =
                    {n \in NodeIds : Closest(NodesAbove(Path(n)) \ {n}) = parent}
              /\ Cardinality(SeqToSet(layer)) = Len(layer)

\* "a/f/g" was re-parented under "a", and "a" with its two children under
\* ".", which was inserted last.
C4_Witness ==
    /\ Len(nodes) = 4
    /\ Path(1) = "a/f/g" /\ Path(2) = "a" /\ Path(3) = "a/b" /\ Path(4) = "."
    /\ tree.subModules = <<4>>
    /\ nodes[4].subModules = <<2>>
    /\ nodes[2].subModules = <<3, 1>>
    /\ nodes[1].subModules = <<>>

\* C5: Get of an inserted path is its node; Search of a path is the closest
\* inserted node above it, and nothing when there is none; Get of a path
\* that was not inserted is nothing.
C5_GetAndSearch ==
    /\ \A n \in NodeIds : TreeGet(Path(n)) = n
    /\ \A q \in QueryPaths :
          /\ TreeSearch(q) = Closest(NodesAbove(q))
          /\ (\A n \in NodeIds : Path(n) # q) => TreeGet(q) = NilNode

\* A search that passes a sub module with a common name prefix, finds the
\* nested module, and finds nothing for a path no module is above.
C5_Witness ==
    /\ \E n, m \in NodeIds :
          /\ Path(n) = "a" /\ Path(m) = "a/b"
          /\ TreeSearch("a/b/a") = m
          /\ TreeSearch("abc") = NilNode
          /\ TreeSearch("a/foo") = n
    /\ TreeGet("a/foo") = NilNode
    /\ TreeSearch("d") = NilNode

\* The nodes below a node, at any depth.
RECURSIVE Below(_)
Below(n) ==
    SeqToSet(nodes[n].subModules)
        \cup UNION {Below(nodes[n].subModules[i]) : i \in 1..Len(nodes[n].subModules)}

\* C8: a node is the parent of a path exactly when it is an ancestor of the
\* path and no node of its subtree is; so never of the path of one of its
\* sub modules, nor of a path below one.
C8_ParentOf ==
    \A n \in NodeIds : \A q \in QueryPaths :
        ParentOf(n, q) <=>
            /\ IsAbove(Path(n), q)
            /\ \A m \in Below(n) : ~IsAbove(Path(m), q)

\* A node with a sub module: parent of a directory of its own, not of the
\* sub module's path, not of a path below the sub module, not of a sibling
\* that shares its name as a prefix.
C8_Witness ==
    \E n, m \in NodeIds :
        /\ Path(n) = "a" /\ Path(m) = "a/b"
        /\ m \in SeqToSet(nodes[n].subModules)
        /\ ParentOf(n, "a/foo") /\ ParentOf(n, "a")
        /\ ~ParentOf(n, "a/b") /\ ~ParentOf(n, "a/b/a")
        /\ ~ParentOf(n, "abc")


(***************************************************************************)
(* The claims about the file filter.                                       *)
(***************************************************************************)
\* The directory of a file, "." for a file of the root.
DirOf(file) ==
    LET i == LastIndex(file, "/")
    IN  IF i = 0 THEN "." ELSE SubSeq(file, 1, i - 1)

NameOf(file) == SubSeq(file, LastIndex(file, "/") + 1, Len(file))

\* The module is the closest node above the directory.
Owns(module, dir) ==
    /\ IsAbove(Path(module), dir)
    /\ \A m \in Below(module) : ~IsAbove(Path(m), dir)

\* The claim's files: the name ends in ".go" or is go.mod.
NamedAsSource(file) ==
    HasSuffix(NameOf(file), ".go") \/ NameOf(file) = "go.mod"

\* The filter's files: a name ending in ".go" that does not start with ".",
\* or go.mod.
NamedAsVisibleSource(file) ==
    \/ HasSuffix(NameOf(file), ".go") /\ Char(NameOf(file), 1) # "."
    \/ NameOf(file) = "go.mod"

IsSorted(list) ==
    \A i, j \in 1..Len(list) : i < j => ~StrLess(list[j], list[i])

\* C6 as claimed: the result is the sorted list of the input files named
\* *.go or go.mod whose directory the module owns.
C6_AsClaimed ==
    pc = "filtered" =>
        /\ ret.filtered = SortStrings(SelectSeq(ret.files,
               LAMBDA f : NamedAsSource(f) /\ Owns(ret.module, DirOf(f))))
        /\ ret.changed <=> ret.filtered # <<>>

\* C6, amended: the result is, in ascending order, exactly the input files
\* whose name ends in ".go" and does not start with ".", or is go.mod, and
\* whose directory the module owns itself; IsModuleChanged tells whether it
\* is non-empty.
C6_FilterModuleFiles ==
    pc = "filtered" =>
        /\ IsSorted(ret.filtered)
        /\ ret.filtered = SortStrings(SelectSeq(ret.files,
               LAMBDA f : NamedAsVisibleSource(f) /\ Owns(ret.module, DirOf(f))))
        /\ ret.changed <=> ret.filtered # <<>>

\* "foobar" with its sub module "foobar/sub1" keeps its go.mod and neither
\* the file of the sibling "foobarbaz" nor the one of its sub module.
C6_Witness ==
    /\ pc = "filtered"
    /\ Path(ret.module) = "foobar"
    /\ \E m \in Below(ret.module) : Path(m) = "foobar/sub1"
    /\ \/ /\ ret.files = <<"foobarbaz/baz.go", "foobar/go.mod">>
          /\ ret.filtered = <<"foobar/go.mod">>
          /\ ret.changed
       \/ /\ ret.files = <<"foobarbaz/baz.go", "foobar/sub1/sub1.go">>
          /\ ret.filtered = <<>>
          /\ ~ret.changed

\* The call of C7: "." with the sub module "sub1" only, or with none, and
\* the changes of the root test.
C7_Call(subs) ==
    /\ pc = "filtered"
    /\ Path(ret.module) = "."
    /\ {Path(m) : m \in Below(ret.module)} = subs
    /\ ret.files = RootChanges

\* C7 as claimed: with the only sub module "sub1" the result is foo.go and
\* sub3/foo.go.
C7_AsClaimed ==
    /\ C7_Call({"sub1"}) => ret.filtered = <<"foo.go", "sub3/foo.go">>
    /\ C7_Call({}) =>
           ret.filtered = <<"foo.go", "sub1/baz.go", "sub2/bar.go", "sub3/foo.go">>

\* C7, amended: with the only sub module "sub1" the result is foo.go,
\* sub2/bar.go and sub3/foo.go (only sub1's file is left out); with no sub
\* modules it is all four files, sorted.
C7_RootChanges ==
    /\ C7_Call({"sub1"}) =>
           ret.filtered = <<"foo.go", "sub2/bar.go", "sub3/foo.go">>
    /\ C7_Call({}) =>
           ret.filtered = <<"foo.go", "sub1/baz.go", "sub2/bar.go", "sub3/foo.go">>

C7_Witness == C7_Call({"sub1"}) /\ Len(nodes) = 2


(***************************************************************************)
(* The claims about the version calculation.                               *)
(***************************************************************************)
RECURSIVE DigitsValue(_)
\* The number a string of digits writes.
DigitsValue(s) ==
    IF s = "" THEN 0
    ELSE 10 * DigitsValue(SubSeq(s, 1, Len(s) - 1))
            + (Ord(Char(s, Len(s))) - Ord("0"))

\* The order by value of two numbers written without leading zeros: the
\* one of fewer digits first, then digit by digit.
NumberLess(a, b) ==
    \/ Len(a) < Len(b)
    \/ /\ Len(a) = Len(b)
       /\ \E i \in 1..Len(a) :
              /\ SubSeq(a, 1, i - 1) = SubSeq(b, 1, i - 1)
              /\ DigitsValue(Char(a, i)) < DigitsValue(Char(b, i))

\* b writes the number a writes, plus one: the nines a ends in are zeros
\* in b, and the digit before them is one higher, or a new leading 1.
WritesNext(a, b) ==
    /\ a # "" /\ AllDigits(a) /\ AllDigits(b)
    /\ \E k \in 0..Len(a) :
           /\ \A i \in (Len(a) - k + 1)..Len(a) : Char(a, i) = "9"
           /\ IF k = Len(a)
              THEN /\ Len(b) = k + 1
                   /\ Char(b, 1) = "1"
                   /\ \A i \in 2..Len(b) : Char(b, i) = "0"
              ELSE /\ Len(b) = Len(a)
                   /\ \A i \in (Len(a) - k + 1)..Len(a) : Char(b, i) = "0"
                   /\ SubSeq(b, 1, Len(a) - k - 1) = SubSeq(a, 1, Len(a) - k - 1)
                   /\ DigitsValue(Char(b, Len(a) - k))
                          = DigitsValue(Char(a, Len(a) - k)) + 1

RECURSIVE Identifiers(_)
\* The dot separated identifiers of a pre-release, without its "-".
Identifiers(s) ==
    LET i == IndexOf(s, ".")
    IN  IF i = 0 THEN <<s>>
        ELSE <<SubSeq(s, 1, i - 1)>> \o Identifiers(SubSeq(s, i + 1, Len(s)))

\* Precedence of two pre-release identifiers: numbers by value, below every
\* other identifier; the others in ASCII order.
IdentifierPrecedes(a, b) ==
    IF AllDigits(a) /\ AllDigits(b) THEN NumberLess(a, b)
    ELSE IF AllDigits(a) # AllDigits(b) THEN AllDigits(a)
    ELSE StrLess(a, b)

\* Precedence of two versions under semantic versioning: major, minor and
\* patch by value; a pre-release below its release; pre-releases by their
\* first differing identifier, the shorter first when one extends the other.
\* Build metadata does not count.
Precedes(v, w) ==
    LET pv == SemverParse(v)
        pw == SemverParse(w)
        nv == <<pv.Major, pv.Minor, pv.Patch>>
        nw == <<pw.Major, pw.Minor, pw.Patch>>
        iv == Identifiers(SubSeq(pv.Prerelease, 2, Len(pv.Prerelease)))
        iw == Identifiers(SubSeq(pw.Prerelease, 2, Len(pw.Prerelease)))
    IN  /\ pv.ok
        /\ pw.ok
        /\ \/ \E k \in 1..3 : NumberLess(nv[k], nw[k]) /\ \A j \in 1..(k - 1) : nv[j] = nw[j]
           \/ /\ nv = nw
              /\ pv.Prerelease # ""
              /\ \/ pw.Prerelease = ""
                 \/ \E k \in 1..Len(iw) :
                       /\ \A j \in 1..(k - 1) : j <= Len(iv) /\ iv[j] = iw[j]
                       /\ k > Len(iv) \/ IdentifierPrecedes(iv[k], iw[k])

\* C1: when CalculateNextVersion is given a prior version and returns
\* without error, the version it returns is strictly higher than the prior
\* one under semantic versioning; when it returns an error it returns no
\* version, and it returns an error whenever the candidate it computed is
\* not strictly higher than the prior version.
C1_NextVersionIsHigher ==
    (pc = "versioned" /\ ret.args.latest # "") =>
        LET a == ret.args
            candidate == candidateVersion(SemverParse(SemverCanonical(a.latest)),
                                          GetVersionIncrement(a.annotations),
                                          a.config, a.preReleaseIdentifier)
        IN  /\ ret.result.err = "" => Precedes(a.latest, ret.result.next)
            /\ ret.result.err # "" => ret.result.next = ""
            /\ (candidate.err = "" /\ ~Precedes(a.latest, candidate.next))
                   => ret.result.err # ""

\* A preview version has had its number incremented.
C1_Witness ==
    /\ pc = "versioned"
    /\ ret.args.latest = "v1.1.0-preview.9"
    /\ ret.result = [next |-> "v1.1.0-preview.10", err |-> ""]


(***************************************************************************)
(* The claims about the propagation of changes.                            *)
(***************************************************************************)
RECURSIVE RequiredFrom(_, _)
\* The modules of the map that S reaches over require lines, S included.
RequiredFrom(mods, S) ==
    LET more == S \cup {r \in DOMAIN mods :
                           \E m \in S : r \in SeqToSet(mods[m].File.Require)}
    IN  IF more = S THEN S ELSE RequiredFrom(mods, more)

\* The modules of the map that m requires, directly or through others.
Requirements(mods, m) ==
    RequiredFrom(mods, SeqToSet(mods[m].File.Require) \cap DOMAIN mods)

\* C2: after CalculateDependencyUpdates succeeds on modules none of which
\* carried DependencyUpdate, a module carries DependencyUpdate exactly when it
\* requires, directly or through other modules of the repository, a module
\* whose changes were not empty before the call; SourceChange and NewModule
\* are on the modules they were on.
C2_DependencyUpdateIffRequiresChanged ==
    (/\ pc = "propagated"
     /\ ret.err = ""
     /\ \A m \in DOMAIN ret.before : "DependencyUpdate" \notin ret.before[m].Changes)
        => \A m \in DOMAIN modules :
               /\ "DependencyUpdate" \in modules[m].Changes
                      <=> \E r \in Requirements(ret.before, m) :
                              ret.before[r].Changes # {}
               /\ modules[m].Changes \ {"DependencyUpdate"} = ret.before[m].Changes

\* b requires a, c requires b, only a has a source change: b and c end with
\* DependencyUpdate, a with SourceChange only.
C2_Witness ==
    /\ pc = "propagated"
    /\ ret.err = ""
    /\ ret.before["a"].File.Require = <<>>
    /\ ret.before["b"].File.Require = <<"a">>
    /\ ret.before["c"].File.Require = <<"b">>
    /\ ret.before["a"].Changes = {"SourceChange"}
    /\ ret.before["b"].Changes = {} /\ ret.before["c"].Changes = {}
    /\ modules["a"].Changes = {"SourceChange"}
    /\ modules["b"].Changes = {"DependencyUpdate"}
    /\ modules["c"].Changes = {"DependencyUpdate"}


(***************************************************************************)
(* The claims about Calculate.                                             *)
(***************************************************************************)
\* The files of a list that a node owns and FilterModuleFiles looks at.
OwnedBy(module, files) ==
    {files[i] : i \in {k \in 1..Len(files) :
                          NamedAsVisibleSource(files[k]) /\ Owns(module, DirOf(files[k]))}}

\* A sub module without a tag whose own files at the tag hold Go source and
\* no go.mod.
CarvedOut(subModule) ==
    /\ Path(subModule) \notin DOMAIN env.tags
    /\ \E f \in OwnedBy(subModule, env.tagged) : NameOf(f) # "go.mod"
    /\ \A f \in OwnedBy(subModule, env.tagged) : NameOf(f) # "go.mod"

\* Changes were detected for a module since its tag: a changed file of its
\* own, or a sub module carved out of it.
Detected(module) ==
    \/ OwnedBy(module, env.changed) # {}
    \/ \E subModule \in Below(module) : CarvedOut(subModule)

\* C9: of the modules Calculate has processed, before the propagation: a
\* module that is no tombstone is NewModule exactly when the tags hold no
\* latest version for its path; it is SourceChange only when they hold one
\* and changes were detected since; never both; and with a tag and no
\* change detected its classification is empty.
C9_Classification ==
    (pc = "calculated" /\ DOMAIN ret.checked # {}) =>
        \A n \in NodeIds :
            ~HasAttribute(n, tombstonedModuleAttrib) =>
                /\ GoModPath(Path(n)) \in DOMAIN ret.checked
                /\ LET changes == ret.checked[GoModPath(Path(n))].Changes
                       hasTag == Path(n) \in DOMAIN env.tags
                   IN  /\ "NewModule" \in changes <=> ~hasTag
                       /\ "SourceChange" \in changes => hasTag /\ Detected(n)
                       /\ ~({"NewModule", "SourceChange"} \subseteq changes)
                       /\ (hasTag /\ ~Detected(n)) => changes = {}

\* Three modules: the root with a tag and no change, "a" with a tag and a
\* changed file, "a/b" without a tag.
C9_Witness ==
    /\ pc = "calculated"
    /\ DOMAIN ret.checked = {"m", "m/a", "m/a/b"}
    /\ DOMAIN env.tags = {".", "a"}
    /\ env.changed = <<"a/x.go">>
    /\ ret.checked["m"].Changes = {}
    /\ ret.checked["m/a"].Changes = {"SourceChange"}
    /\ ret.checked["m/a/b"].Changes = {"NewModule"}


(***************************************************************************)
(* The claims about the release manifest.                                  *)
(***************************************************************************)
\* The modules of the map that are released: changed, and not exempt from
\* tagging.
Released == {k \in DOMAIN modules :
                modules[k].Changes # {} /\ ~modules[k].ModuleConfig.NoTag}

\* C10: the manifest BuildReleaseManifest returns has an entry, under the
\* relative path, for exactly the modules with changes that are not NoTag;
\* the entry's From is the module's latest version and its To the next
\* version calculated for it, higher than From when there is one; Tags holds
\* one tag for each entry, "{path}/{to}" or "{to}" for the root, in
\* ascending order without duplicates.
C10_ManifestEntriesAndTags ==
    (pc = "manifest" /\ ret.err = "") =>
        LET rm == ret.rm
        IN  /\ DOMAIN rm.Modules = {modules[k].RelativeRepoPath : k \in Released}
            /\ \A k \in Released :
                   LET mm == rm.Modules[modules[k].RelativeRepoPath]
                   IN  /\ mm.ModulePath = k
                       /\ mm.From = modules[k].Latest
                       /\ mm.To = CalculateNextVersion(k, modules[k].Latest,
                                      modules[k].ModuleConfig,
                                      modules[k].ChangeAnnotations,
                                      ret.preRelease).next
                       /\ mm.From # "" => Precedes(mm.From, mm.To)
            /\ Len(rm.Tags) = Cardinality(Released)
            /\ SeqToSet(rm.Tags) =
                   {IF p = "." THEN rm.Modules[p].To ELSE p \o "/" \o rm.Modules[p].To :
                        p \in DOMAIN rm.Modules}
            /\ \A i, j \in 1..Len(rm.Tags) : i < j => StrLess(rm.Tags[i], rm.Tags[j])

\* Both modules are released, the root from v1.0.0 and "a" as a new module.
C10_Witness ==
    /\ pc = "manifest"
    /\ ret.err = ""
    /\ DOMAIN ret.rm.Modules = {".", "a"}
    /\ ret.rm.Modules["."].From = "v1.0.0"
    /\ ret.rm.Tags = <<"a/v1.0.0-preview", "v1.0.1">>

(***************************************************************************)
(* The claims about the pass: Calculate, then BuildReleaseManifest.        *)
(***************************************************************************)
\* The modules the discovery found: the nodes that are no tombstones.
Discovered == {n \in NodeIds : ~HasAttribute(n, tombstonedModuleAttrib)}

\* The version a pass with this preview flag gives a module of Calculate's
\* result.
NextOf(k, preRelease) ==
    CalculateNextVersion(k, modules[k].Latest, modules[k].ModuleConfig,
                         modules[k].ChangeAnnotations, preRelease)

\* C11, as the claim states it: after a pass that returned a manifest, a
\* repository with exactly one discovered module has WithReleaseTag = false
\* and the module's own version as ID (its next version when it changed
\* and is released, otherwise its latest version); a repository with two or more discovered
\* modules has WithReleaseTag = true and the ID it was given.
C11_AsClaimed ==
    (pc = "released" /\ ret.err = "") =>
        /\ Cardinality(Discovered) = 1 =>
               LET k == GoModPath(Path(CHOOSE n \in Discovered : TRUE))
               IN  /\ ~ret.rm.WithReleaseTag
                   /\ ret.rm.ID = IF k \in Released
                                  THEN NextOf(k, ret.preRelease).next
                                  ELSE ret.checked[k].Latest
        /\ Cardinality(Discovered) >= 2 =>
               ret.rm.WithReleaseTag /\ ret.rm.ID = ManifestID

\* The modules of the repository for which Calculate found no change: none
\* detected, and none of a module they require.
Unchanged ==
    {k \in DOMAIN ret.checked :
        /\ ret.checked[k].Changes = {}
        /\ \A r \in Requirements(ret.checked, k) : ret.checked[r].Changes = {}}

\* C12, as the claim states it: when Calculate has returned and no version
\* of a released module fails to calculate, a module without changes does
\* not make BuildReleaseManifest fail; the manifest has no entry and no tag
\* for it, and when it is the only module of the repository the ID of the
\* manifest is its latest version.
C12_AsClaimed ==
    (/\ pc = "released"
     /\ \A k \in Released : NextOf(k, ret.preRelease).err = "")
        => \A k \in Unchanged :
               /\ ret.err = ""
               /\ ret.checked[k].RelativeRepoPath \notin DOMAIN ret.rm.Modules
               /\ \A i \in 1..Len(ret.rm.Tags) :
                      ~HasPrefix(ret.rm.Tags[i],
                                 ret.checked[k].RelativeRepoPath \o "/v")
               /\ Cardinality(Discovered) = 1 /\ Len(TreeList) = 1
                      => ret.rm.ID = ret.checked[k].Latest

\* The modules Calculate has checked that are exempt from tagging and that
\* a module of the repository requires.
ExemptAndRequired ==
    {k \in DOMAIN ret.checked :
        /\ ret.checked[k].ModuleConfig.NoTag
        /\ \E d \in DOMAIN ret.checked : k \in SeqToSet(ret.checked[d].File.Require)}

\* The modules Calculate has checked that have a change: one detected, or
\* one of a module they require, directly or through others.
WithChange ==
    {k \in DOMAIN ret.checked :
        \/ ret.checked[k].Changes # {}
        \/ \E r \in Requirements(ret.checked, k) : ret.checked[r].Changes # {}}

NoReleasesError == "module is configured for no releases, but has dependents"

\* C13, as the claim states it: when a module exempt from tagging is
\* required by a module of the repository, Calculate returns an error and no
\* modules, and no manifest is built.
C13_AsClaimed ==
    /\ (pc = "calculated" /\ ExemptAndRequired # {})
           => ret.err # "" /\ modules = <<>>
    /\ pc = "released" => ExemptAndRequired = {}

\* C13: Calculate fails in the propagation exactly when a module that is
\* exempt from tagging and required by a module of the repository has a
\* change, its own or one of a module it requires; it then returns no
\* modules, and no manifest is built.  An exempt module without a change
\* fails nothing, whatever requires it.
C13_ExemptRequiredAndChanged ==
    /\ pc = "calculated" =>
           /\ ret.err = NoReleasesError <=> ExemptAndRequired \cap WithChange # {}
           /\ ret.err # "" => modules = <<>>
    /\ pc = "released" => ExemptAndRequired \cap WithChange = {}

\* "a" is exempt, required by the root and without a change of its own; it
\* requires "a/b", a new module: the propagation reaches "a" and fails.
C13_Witness ==
    /\ pc = "calculated"
    /\ ret.err = NoReleasesError
    /\ modules = <<>>
    /\ DOMAIN ret.checked = {"m", "m/a", "m/a/b"}
    /\ ret.checked["m/a"].ModuleConfig.NoTag
    /\ ret.checked["m/a"].Changes = {}
    /\ ret.checked["m"].File.Require = <<"m/a">>
    /\ ret.checked["m/a"].File.Require = <<"m/a/b">>
    /\ ret.checked["m/a/b"].Changes = {"NewModule"}

(***************************************************************************)
(* The claims about the cases of the version calculation.  They are about  *)
(* a call of CalculateNextVersion that has returned: its arguments are     *)
(* ret.args, its result ret.result.                                        *)
(***************************************************************************)
\* The bump the annotations of the call ask for.
Bump == GetVersionIncrement(ret.args.annotations)

\* The prior version of the call, parsed.
Prior == SemverParse(SemverCanonical(ret.args.latest))

\* The last element of a module path is a major version suffix: "v" and a
\* number from 2 up.
MajorSuffix(element) ==
    /\ Len(element) >= 2
    /\ Char(element, 1) = "v"
    /\ AllDigits(SubSeq(element, 2, Len(element)))
    /\ Char(element, 2) # "0"
    /\ element # "v1"

\* C14: for a module without a prior version and with a valid module path,
\* CalculateNextVersion returns without error; the version is the base,
\* v1.0.0 or vN.0.0 for a path that ends in /vN, alone when the bump is a
\* release and no preview identifier is requested, and otherwise followed by
\* "-" and the preview identifier, else the configured track, else "preview".
C14_NewModuleVersion ==
    (/\ pc = "versioned"
     /\ ret.args.latest = ""
     /\ SplitPathVersion(ret.args.modulePath).ok)
        => LET a == ret.args
               element == SubSeq(a.modulePath, LastIndex(a.modulePath, "/") + 1,
                                 Len(a.modulePath))
               base == IF MajorSuffix(element) THEN element \o ".0.0" ELSE "v1.0.0"
               identifier == IF a.preReleaseIdentifier # "" THEN a.preReleaseIdentifier
                             ELSE IF a.config.PreRelease # "" THEN a.config.PreRelease
                             ELSE "preview"
           IN  /\ ret.result.err = ""
               /\ ret.result.next =
                      IF Bump = "ReleaseBump" /\ a.preReleaseIdentifier = "" THEN base
                      ELSE base \o "-" \o identifier

\* A new module of major version 2 on the track "rc", in a pass with the
\* preview identifier "foo" and a feature annotation: v2.0.0-foo.
C14_Witness ==
    /\ pc = "versioned"
    /\ ret.args.latest = ""
    /\ ret.args.modulePath = "m/v2"
    /\ ret.args.config.PreRelease = "rc"
    /\ ret.args.preReleaseIdentifier = "foo"
    /\ ret.args.annotations = <<[Type |-> "feature"]>>
    /\ ret.result = [next |-> "v2.0.0-foo", err |-> ""]

\* C15: with a prior version, no preview identifier and a release bump, the
\* call returns an error and no version when the prior version carries no
\* pre-release tag; otherwise it returns the prior version up to its
\* pre-release tag, that is with major, minor and patch as they were,
\* whatever track is configured.
C15_ReleasePromotion ==
    (/\ pc = "versioned"
     /\ ret.args.latest # ""
     /\ ret.args.preReleaseIdentifier = ""
     /\ Bump = "ReleaseBump"
     /\ SplitPathVersion(ret.args.modulePath).ok)
        => IF ~Prior.ok \/ Prior.Prerelease = ""
           THEN ret.result.err # "" /\ ret.result.next = ""
           ELSE /\ ret.result.err = ""
                /\ ret.result.next =
                       SubSeq(ret.args.latest, 1, IndexOf(ret.args.latest, "-") - 1)
                /\ SemverParse(ret.result.next).Major = Prior.Major
                /\ SemverParse(ret.result.next).Minor = Prior.Minor
                /\ SemverParse(ret.result.next).Patch = Prior.Patch
                /\ SemverParse(ret.result.next).Prerelease = ""

\* v1.1.0-rc.5 of a module on the track "alpha" is promoted to v1.1.0.
C15_Witness ==
    /\ pc = "versioned"
    /\ ret.args.preReleaseIdentifier = ""
    /\ Bump = "ReleaseBump"
    /\ ret.args.latest = "v1.1.0-rc.5"
    /\ ret.args.config.PreRelease = "alpha"
    /\ ret.result = [next |-> "v1.1.0", err |-> ""]

\* The pre-release tag of the prior version, without its "-".
Tag == SubSeq(Prior.Prerelease, 2, Len(Prior.Prerelease))

\* The track configured for the module of the call.
Track == ret.args.config.PreRelease

\* "vMAJOR.MINOR.PATCH" of the prior version.
Numbers == "v" \o Prior.Major \o "." \o Prior.Minor \o "." \o Prior.Patch

\* What follows the last "." of a tag, and what precedes it.
LastField(tag) == SubSeq(tag, LastIndex(tag, ".") + 1, Len(tag))

BeforeLastField(tag) == SubSeq(tag, 1, LastIndex(tag, ".") - 1)

\* The tag ends in "." and a number.
HasNumber(tag) ==
    LastIndex(tag, ".") > 0 /\ LastField(tag) # "" /\ AllDigits(LastField(tag))

\* The identifier of a tag: the tag without the number it ends in.
CurrentIdentifier(tag) == IF HasNumber(tag) THEN BeforeLastField(tag) ELSE tag

\* next is tag with its number incremented by one, or with ".1" when it has
\* no "." yet.
Incremented(tag, next) ==
    IF LastIndex(tag, ".") = 0 THEN next = tag \o ".1"
    ELSE /\ HasNumber(tag) /\ HasNumber(next)
         /\ BeforeLastField(next) = BeforeLastField(tag)
         /\ WritesNext(LastField(tag), LastField(next))

\* The calls C16 is about: a prior version with a pre-release tag, no
\* preview identifier, and a bump that is no release.
OnPreRelease ==
    /\ pc = "versioned"
    /\ ret.args.latest # ""
    /\ ret.args.preReleaseIdentifier = ""
    /\ Bump # "ReleaseBump"
    /\ SplitPathVersion(ret.args.modulePath).ok
    /\ Prior.ok
    /\ Prior.Prerelease # ""

NumbersOf(p) == "v" \o p.Major \o "." \o p.Minor \o "." \o p.Patch

\* The calls C17 and C18 are about: a prior version without a pre-release
\* tag, a module on a track, no preview identifier, no release bump.
OnTrack ==
    /\ pc = "versioned"
    /\ ret.args.latest # ""
    /\ ret.args.preReleaseIdentifier = ""
    /\ Bump # "ReleaseBump"
    /\ SplitPathVersion(ret.args.modulePath).ok
    /\ Prior.ok
    /\ Prior.Prerelease = ""
    /\ Track # ""

C18_AsClaimed ==
    (OnTrack /\ ret.result.err = "") =>
        LET next == SemverParse(ret.result.next)
        IN  /\ next.Major = Prior.Major
            /\ WritesNext(Prior.Minor, next.Minor)
            /\ next.Patch = "0"
            /\ ret.result.next = NumbersOf(next) \o "-" \o Track

\* The calls C19 is about: a prior version without a pre-release tag, no
\* track, no preview identifier, no release bump.
OnRelease ==
    /\ pc = "versioned"
    /\ ret.args.latest # ""
    /\ ret.args.preReleaseIdentifier = ""
    /\ Bump # "ReleaseBump"
    /\ SplitPathVersion(ret.args.modulePath).ok
    /\ Prior.ok
    /\ Prior.Prerelease = ""
    /\ Track = ""

\* C19: for a prior version without a pre-release tag, without track,
\* preview identifier and release bump: a minor bump returns minor + 1 and
\* patch 0, a patch or default bump returns patch + 1 and the minor number
\* as it was; the major number is as it was and the version has no
\* pre-release tag and no build metadata.  The call fails only for a
\* number to increment that is the largest int or beyond.
C19_MinorAndPatchBump ==
    OnRelease =>
        LET next == SemverParse(ret.result.next)
            number == IF Bump = "MinorBump" THEN Prior.Minor ELSE Prior.Patch
        IN  /\ ret.result.err = "" <=> NumberLess(number, MaxInt)
            /\ ret.result.err # "" => ret.result.next = ""
            /\ ret.result.err = "" =>
                   /\ ret.result.next = NumbersOf(next)
                   /\ next.Major = Prior.Major
                   /\ IF Bump = "MinorBump"
                      THEN WritesNext(Prior.Minor, next.Minor) /\ next.Patch = "0"
                      ELSE next.Minor = Prior.Minor
                               /\ WritesNext(Prior.Patch, next.Patch)

\* v1.9.9 becomes v1.10.0 under a feature annotation.
C19_Witness ==
    /\ pc = "versioned"
    /\ ret.args.latest = "v1.9.9"
    /\ ret.args.config.PreRelease = ""
    /\ ret.args.preReleaseIdentifier = ""
    /\ ret.args.annotations = <<[Type |-> "feature"]>>
    /\ ret.result = [next |-> "v1.10.0", err |-> ""]

\* The requested preview identifier, with "-" before it unless it starts
\* with one.
Requested ==
    IF Char(ret.args.preReleaseIdentifier, 1) = "-" THEN ret.args.preReleaseIdentifier
    ELSE "-" \o ret.args.preReleaseIdentifier

\* The calls C20 is about: a prior version and a preview identifier.
OnPreview ==
    /\ pc = "versioned"
    /\ ret.args.latest # ""
    /\ ret.args.preReleaseIdentifier # ""
    /\ SplitPathVersion(ret.args.modulePath).ok
    /\ Prior.ok

\* C20: with a prior version and a requested preview identifier, when the
\* bump is a release or the prior version has a pre-release tag, the
\* candidate is the prior major, minor and patch with the requested
\* identifier as tag, returned exactly when it is higher than the prior
\* version; otherwise the minor number is incremented and the patch set to
\* 0 (minor bump) or the patch number incremented (patch and default bump)
\* and the requested identifier attached, which fails only for a number
\* that is the largest int or beyond.  The track of the module changes
\* nothing in the result.
C20_PreviewVersion ==
    OnPreview =>
        LET next == SemverParse(ret.result.next)
            number == IF Bump = "MinorBump" THEN Prior.Minor ELSE Prior.Patch
        IN  /\ ret.result.err # "" => ret.result.next = ""
            /\ IF Bump = "ReleaseBump" \/ Prior.Prerelease # ""
               THEN IF Precedes(ret.args.latest, Numbers \o Requested)
                    THEN ret.result = [next |-> Numbers \o Requested, err |-> ""]
                    ELSE ret.result.err # ""
               ELSE /\ ret.result.err = "" <=> NumberLess(number, MaxInt)
                    /\ ret.result.err = "" =>
                           /\ ret.result.next = NumbersOf(next) \o Requested
                           /\ Precedes(ret.args.latest, ret.result.next)
                           /\ next.Major = Prior.Major
                           /\ IF Bump = "MinorBump"
                              THEN WritesNext(Prior.Minor, next.Minor)
                                       /\ next.Patch = "0"
                              ELSE next.Minor = Prior.Minor
                                       /\ WritesNext(Prior.Patch, next.Patch)
            /\ ret.result = CalculateNextVersion(
                                ret.args.modulePath, ret.args.latest,
                                [NoTag |-> FALSE, PreRelease |-> ""],
                                ret.args.annotations, ret.args.preReleaseIdentifier)

\* v1.1.0-preview.1 of a module on the track "preview" becomes v1.1.0-rc.5
\* in a pass with the preview identifier "rc.5".
C20_Witness ==
    /\ pc = "versioned"
    /\ ret.args.latest = "v1.1.0-preview.1"
    /\ ret.args.config.PreRelease = "preview"
    /\ ret.args.preReleaseIdentifier = "rc.5"
    /\ ret.args.annotations = <<>>
    /\ ret.result = [next |-> "v1.1.0-rc.5", err |-> ""]

(***************************************************************************)
(* The claims about the tombstones of Calculate.                           *)
(***************************************************************************)
\* The nodes Calculate has inserted for tags without a module.
Tombstones == {n \in NodeIds : HasAttribute(n, tombstonedModuleAttrib)}

TombstoneError == "tombstone module has go source files"

\* C21: when Calculate has returned, every path with a tag has a node, and
\* the tombstones are exactly the nodes of the tagged paths the discovery
\* did not find; Calculate has failed with the error of the tombstones, and
\* returned no modules, exactly when some tombstone owns directly, not
\* through a sub module, a Go source or go.mod file on disk; and no record,
\* checked or returned, is the record of a tombstone.
C21_Tombstones ==
    pc = "calculated" =>
        /\ \A t \in DOMAIN env.tags : \E n \in NodeIds : Path(n) = t
        /\ \A n \in NodeIds :
               n \in Tombstones <=>
                   Path(n) \in DOMAIN env.tags \ DOMAIN env.gomod
        /\ ret.err = TombstoneError <=>
               \E n \in Tombstones : OwnedBy(n, env.worktree) # {}
        /\ ret.err = TombstoneError => modules = <<>> /\ ret.checked = <<>>
        /\ \A n \in Tombstones :
               /\ \A k \in DOMAIN ret.checked :
                      ret.checked[k].RelativeRepoPath # Path(n)
               /\ \A k \in DOMAIN modules :
                      modules[k].RelativeRepoPath # Path(n)

\* The removed module "a" has a tag and its directory still holds x.go,
\* beside the directory of the module "a/b": the call fails.
C21_Witness ==
    /\ pc = "calculated"
    /\ ret.err = TombstoneError
    /\ {Path(n) : n \in Tombstones} = {"a"}
    /\ {Path(n) : n \in Discovered} = {".", "a/b"}
    /\ env.worktree = <<"a/b/go.mod", "a/x.go", "go.mod">>

(***************************************************************************)
(* The claims about the carve-outs.                                        *)
(***************************************************************************)
\* The modules with a tag and without a changed file of their own, of a
\* call that got as far as the propagation.
TaggedWithoutChanges ==
    {n \in Discovered :
        /\ GoModPath(Path(n)) \in DOMAIN ret.checked
        /\ Path(n) \in DOMAIN env.tags
        /\ OwnedBy(n, env.changed) = {}}

\* The listing of the tree at the tag for the path of a sub module, and the
\* files of it that the sub module owns itself.
ListedAtTag(subModule) ==
    {f \in SeqToSet(env.tagged) : IsAbove(Path(subModule), DirOf(f))}

OwnListedAtTag(subModule) ==
    {f \in ListedAtTag(subModule) :
        \A nested \in Below(subModule) : ~IsAbove(Path(nested), DirOf(f))}

IsCarveOut(subModule) ==
    /\ \E f \in OwnListedAtTag(subModule) :
           HasSuffix(NameOf(f), ".go") /\ Char(NameOf(f), 1) # "."
    /\ \A f \in OwnListedAtTag(subModule) : NameOf(f) # "go.mod"

\* C22: a module with a tag and without changed files of its own is
\* classified SourceChange exactly when one of the sub modules below it
\* that has no tag is a carve-out: the files it owns of the listing of its
\* path at the tag hold Go source and no go.mod.  A sub module with a tag
\* does not count, whatever its listing.
C22_CarveOut ==
    pc = "calculated" =>
        \A n \in TaggedWithoutChanges :
            ret.checked[GoModPath(Path(n))].Changes
                = IF \E subModule \in Below(n) :
                         /\ Path(subModule) \notin DOMAIN env.tags
                         /\ IsCarveOut(subModule)
                  THEN {"SourceChange"}
                  ELSE {}

\* The root has a tag and no change; "a", new, was a package of the root
\* at the tag (a/x.go, no a/go.mod): the root is SourceChange.  The
\* listing also holds a file of "a/b", which has a tag.
C22_Witness ==
    /\ pc = "calculated"
    /\ DOMAIN env.tags = {".", "a/b"}
    /\ {Path(n) : n \in Discovered} = {".", "a", "a/b"}
    /\ env.changed = <<>>
    /\ env.tagged = <<"a/b/x.go", "a/x.go">>
    /\ ret.checked["m"].Changes = {"SourceChange"}
    /\ ret.checked["m/a/b"].Changes = {}

(***************************************************************************)
(* The claims about the result of Calculate.                               *)
(***************************************************************************)
\* C23, as the claim states it: a call of Calculate that returns without
\* error returns one record for every node of the tree that is no
\* tombstone, with the classification found for that node, which may be
\* empty, and the dependency updates added to it.
C23_AsClaimed ==
    (pc = "calculated" /\ ret.err = "") =>
        /\ {modules[k].RelativeRepoPath : k \in DOMAIN modules}
               = {Path(n) : n \in Discovered}
        /\ \A k \in DOMAIN modules :
               /\ k \in DOMAIN ret.checked
               /\ ret.checked[k].Changes \subseteq modules[k].Changes
               /\ modules[k].Changes \ ret.checked[k].Changes
                      \subseteq {"DependencyUpdate"}

(***************************************************************************)
(* The claims about the errors of Insert.                                  *)
(***************************************************************************)
\* C24: a call of Insert, or of InsertRel, for a path whose relative path
\* is the one of a node of the tree, at whatever depth the node sits,
\* returns no node and the error of the duplicate, and leaves the nodes,
\* their sub modules and the order of every layer as they were.
C24_DuplicateInsert ==
    [][\A p \in ModulePaths :
          (/\ \E n \in NodeIds : Path(n) = p
           /\ \/ tree.options.RootPath = "" /\ Insert(p, <<>>)
              \/ InsertRel(p, <<>>))
              => /\ ret'.node = NilNode
                 /\ ret'.err = "already exists"
                 /\ UNCHANGED <<tree, nodes>>]_vars

\* A rejected call on a tree of three levels: every path that can have
\* been rejected is the one of a node, two of them nested.
C24_Witness ==
    /\ ret.err = "already exists"
    /\ \E r, a, b \in NodeIds :
           /\ Path(r) = "." /\ Path(a) = "a" /\ Path(b) = "a/b"
           /\ tree.subModules = <<r>>
           /\ a \in SeqToSet(nodes[r].subModules)
           /\ nodes[a].subModules = <<b>>

\* The root of the tree is this directory or one above it.
RootAbove(dir) ==
    LET root == tree.options.RootPath
    IN  dir = root \/ HasPrefix(dir, root \o "/")

\* C25, as the claim states it: a call of Insert on a tree with a root, for
\* a path that is not the root nor below it, returns an error and no node,
\* and the tree has no more nodes than before.
C25_AsClaimed ==
    [][\A p \in AbsolutePaths(tree.options.RootPath) :
          (~RootAbove(p) /\ Insert(p, <<>>))
              => /\ ret'.node = NilNode
                 /\ ret'.err # ""
                 /\ Len(nodes') = Len(nodes)]_vars

(***************************************************************************)
(* The claims about the iterator.                                          *)
(***************************************************************************)
\* The nodes an iterator made over a layer has to yield: every node of the
\* tree, or the nodes below the node.
NodesUnder(over) == IF over = NilNode THEN NodeIds ELSE Below(over)

\* Node x comes before node y depth first with sorted layers: y is below
\* x, or they lie in or below two nodes of one layer and the path of the
\* one of x is the lower.
Before(x, y) ==
    \/ y \in Below(x)
    \/ \E parent \in Parents :
           \E bx, by \in SeqToSet(Layer(parent)) :
               /\ x \in {bx} \cup Below(bx)
               /\ y \in {by} \cup Below(by)
               /\ StrLess(Path(bx), Path(by))

\* The list is the start of the depth first order of the nodes of S: each
\* node at most once, in that order, and before every node of S left out.
StartsDepthFirst(list, S) ==
    /\ SeqToSet(list) \subseteq S
    /\ \A j, k \in 1..Len(list) : j < k => Before(list[j], list[k])
    /\ \A x \in SeqToSet(list), y \in S \ SeqToSet(list) : Before(x, y)

\* C26: every iterator has yielded, call by call, the start of the depth
\* first order of the nodes of its tree or subtree, each node once; it has
\* yielded a node at each of its first calls, as many as there are nodes,
\* and nil at every call after them; so it is with every iterator whatever
\* the calls made of the other; and List, of the tree and of a node, is
\* the whole of that order.
C26_Iterator ==
    /\ \A i \in 1..Len(env) :
           LET S == NodesUnder(env[i].over)
           IN  /\ StartsDepthFirst(env[i].yielded, S)
               /\ Len(env[i].yielded)
                      = IF env[i].calls < Cardinality(S) THEN env[i].calls
                        ELSE Cardinality(S)
               /\ env[i].calls >= Cardinality(S) =>
                      env[i].yielded = IF env[i].over = NilNode THEN TreeList
                                       ELSE NodeList(env[i].over)
    /\ StartsDepthFirst(TreeList, NodeIds) /\ Len(TreeList) = Len(nodes)
    /\ \A n \in NodeIds :
           /\ StartsDepthFirst(NodeList(n), Below(n))
           /\ Len(NodeList(n)) = Cardinality(Below(n))

\* Two iterators over the tree of ".", "foobar", "foobar/sub1" and "sub1",
\* inserted in another order: the first has yielded the four nodes and
\* then nil; the second, made after it, has yielded the first two.
C26_Witness ==
    /\ Len(env) = 2
    /\ env[1].over = NilNode /\ env[2].over = NilNode
    /\ [i \in 1..Len(env[1].yielded) |-> Path(env[1].yielded[i])]
           = <<".", "foobar", "foobar/sub1", "sub1">>
    /\ env[1].calls = 5
    /\ ret.node = NilNode
    /\ [i \in 1..Len(env[2].yielded) |-> Path(env[2].yielded[i])]
           = <<".", "foobar">>
    /\ Path(1) = "sub1"

(***************************************************************************)
(* The claims about the release identifier.                                *)
(***************************************************************************)
\* The day of the call, as the identifier writes it.
Today == IF env.now.day = 6 THEN "2021-05-06" ELSE "2021-05-04"

\* The release numbers of the day among the tags: 1 for the bare tag of
\* the day, N for a tag of the day with the number N.
NumbersOfToday ==
    {"1" : t \in {u \in SeqToSet(env.tags) : u = "release-" \o Today}}
        \cup {TrimPrefix(t, "release-" \o Today \o ".") :
                 t \in {u \in SeqToSet(env.tags) :
                           /\ HasPrefix(u, "release-" \o Today \o ".")
                           /\ Len(u) > Len(Today) + 9
                           /\ AllDigits(TrimPrefix(u, "release-" \o Today \o "."))}}

\* The highest of a set of numbers.
Highest(S) == CHOOSE m \in S : \A n \in S : ~NumberLess(m, n)

\* The identifier is the day, a "." and the number after m.
NumberedAfter(next, m) ==
    /\ HasPrefix(next, Today \o ".")
    /\ WritesNext(m, TrimPrefix(next, Today \o "."))

\* C27, as the claim states it: the identifier is the bare day when no tag
\* is the tag of the day, bare or with a number, and otherwise the day with
\* the number after the highest number of the day, the bare tag counting
\* as 1.
C27_AsClaimed ==
    pc = "identified" =>
        IF NumbersOfToday = {} THEN ret.next = Today
        ELSE NumberedAfter(ret.next, Highest(NumbersOfToday))

\* C27: the numbers that count are the positive ones an int holds; with
\* none of them among the tags of the day the identifier is the bare day,
\* otherwise it is the day with the number after the highest of them.  At
\* the largest int the number after it is written as the lowest int.
C27_NextReleaseID ==
    pc = "identified" =>
        LET counted == NumbersOfToday \ {"0"}
        IN  IF counted = {} THEN ret.next = Today
            ELSE IF Highest(counted) = MaxInt
            THEN ret.next = Today \o ".-9223372036854775808"
            ELSE NumberedAfter(ret.next, Highest(counted))

\* The third release of the day, among tags of another day, tags without
\* the prefix and a tag with the number 0.
C27_Witness ==
    /\ pc = "identified"
    /\ env.now.day = 6
    /\ env.tags = <<"release-2021-05-06", "release-2021-05-06.2",
                    "release-2021-05-06.0", "release-2021-05-04.7", "v1.2.0">>
    /\ ret.next = "2021-05-06.3"

(***************************************************************************)
(* The claims about the turns of the propagation.                          *)
(***************************************************************************)
\* The modules whose DependencyUpdate bit is set.
Flagged(mods) == {m \in DOMAIN mods : "DependencyUpdate" \in mods[m].Changes}

\* What is left to do: the modules of the work list, and the modules
\* whose bit is not set.
LeftToDo(mods, toVisit) == Len(toVisit) + Cardinality(DOMAIN mods \ Flagged(mods))

\* C28: for every set of requirements among the modules, cycles and
\* requirements of oneself included: while the loop runs the work list is
\* not empty and the turn can be taken; a turn clears the bit of no
\* module, takes the first module from the work list and adds to its end
\* only modules whose bit it has set; so what is left to do gets less at
\* every turn, and the call ends, with an empty work list or with the
\* error of the module exempt from tagging.
C28_Terminates ==
    /\ [](pc = "visit" => env.toVisit # <<>> /\ ENABLED VisitModule)
    /\ [](pc = "propagated" =>
              \/ env.toVisit = <<>>
              \/ ret.err = "module is configured for no releases, but has dependents")
    /\ [][pc = "visit" =>
              /\ Flagged(modules) \subseteq Flagged(modules')
              /\ Len(env'.toVisit) >= Len(env.toVisit) - 1
              /\ SubSeq(env'.toVisit, 1, Len(env.toVisit) - 1) = Tail(env.toVisit)
              /\ \A i \in Len(env.toVisit)..Len(env'.toVisit) :
                     env'.toVisit[i] \in Flagged(modules') \ Flagged(modules)
              /\ LeftToDo(modules', env'.toVisit) < LeftToDo(modules, env.toVisit)]_vars

\* "a" requires itself and "b", "b" requires "a", and "a" has a change: the
\* call has ended without error with the bits of both set.
C28_Witness ==
    /\ pc = "propagated"
    /\ ret.err = ""
    /\ DOMAIN env = {"graph", "toVisit", "order", "scans"}
    /\ ret.before["a"].File.Require = <<"a", "b">>
    /\ ret.before["b"].File.Require = <<"a">>
    /\ ret.before["a"].Changes = {"SourceChange"}
    /\ ret.before["b"].Changes = {}
    /\ {"a", "b"} \subseteq Flagged(modules)
    /\ env.scans["a"].set = 1 /\ env.scans["b"].set = 1

\* The loop is running or has run, and the scans are counted.
Propagating == pc \in {"visit", "propagated"}

\* C29, as the claim states it: in a pass the loop over the dependents of a
\* module is run at most once.
C29_AsClaimed ==
    Propagating =>
        \A m \in DOMAIN modules : env.scans[m].unset + env.scans[m].set <= 1

\* C29: in a pass the loop over the dependents of a module is run at most
\* once while the bit of the module is not set, and at most once after it
\* was set: twice at most, and once at most for a module that had its bit
\* set, or had no change, when it was first taken from the work list.
C29_ScannedOnceBeforeOnceAfter ==
    Propagating =>
        \A m \in DOMAIN modules :
            /\ env.scans[m].unset <= 1
            /\ env.scans[m].set <= 1
            /\ env.scans[m].unset = 1 => ret.before[m].Changes \in {{"SourceChange"}, {"NewModule"}}
            /\ env.scans[m].set = 1 => m \in Flagged(modules)

\* "a" and "b" have changes, "a" requires "b" and "c" requires "a": the
\* dependents of "a" are scanned when it is first taken from the work list,
\* and again after the scan of "b" has set its bit and returned it there.
C29_Witness ==
    /\ pc = "propagated"
    /\ ret.err = ""
    /\ DOMAIN env = {"graph", "toVisit", "order", "scans"}
    /\ ret.before["a"].File.Require = <<"b">>
    /\ ret.before["b"].File.Require = <<>>
    /\ ret.before["c"].File.Require = <<"a">>
    /\ ret.before["a"].Changes = {"SourceChange"}
    /\ ret.before["b"].Changes = {"SourceChange"}
    /\ env.scans["a"] = [unset |-> 1, set |-> 1]
    /\ env.scans["b"] = [unset |-> 1, set |-> 0]

(***************************************************************************)
(* The claims about the owner of a file.                                   *)
(***************************************************************************)
\* The nodes that keep the file when they filter the files of the call.
Keepers(file) ==
    {n \in NodeIds : file \in SeqToSet(FilterModuleFiles(n, ret.files))}

\* C30: of the files of a call of FilterModuleFiles, on a tree of modules
\* and tombstones: a Go source or go.mod file is kept by the node that is
\* the closest one above its directory, by that node only, and by no node
\* when no node is above its directory; any other file is kept by no
\* node; and the call has kept the files its module is the keeper of.
C30_OneOwner ==
    pc = "filtered" =>
        \A i \in 1..Len(ret.files) :
            LET file == ret.files[i]
                above == NodesAbove(DirOf(file))
            IN  /\ Keepers(file)
                       = IF NamedAsVisibleSource(file) /\ above # {}
                         THEN {Closest(above)}
                         ELSE {}
                /\ file \in SeqToSet(ret.filtered) <=> ret.module \in Keepers(file)

\* The tombstone "foobar" between the root and the module "foobar/sub1":
\* of its go.mod and a file of the module below it, it keeps the go.mod,
\* which the root does not keep.
C30_Witness ==
    /\ pc = "filtered"
    /\ {Path(n) : n \in NodeIds} = {".", "foobar", "foobar/sub1"}
    /\ Path(ret.module) = "foobar"
    /\ nodes[ret.module].attributes = <<"tombstone">>
    /\ ret.files = <<"foobar/go.mod", "foobar/sub1/sub1.go">>
    /\ ret.filtered = <<"foobar/go.mod">>
    /\ \A n \in NodeIds : Path(n) = "." => n \notin Keepers("foobar/go.mod")

====
